---------------------------- MODULE Spec2Model ----------------------------
(***************************************************************************)
(* Creative-Platform: the metrics server (data_collector_2/server/         *)
(* server.js) and the feature pipeline (machine_learning/DataProcessor).   *)
(*                                                                         *)
(* Conventions.                                                            *)
(*  - SQL NULL / JS null / a missing float is the empty tuple <<>>, a      *)
(*    present number v is <<v>>.                                           *)
(*  - Timestamps are milliseconds counted from a local midnight that is    *)
(*    far from any DST change, so local hour = (ts % Day) \div Hour.       *)
(*  - A JS double that is a quotient of integers is kept as the reduced    *)
(*    fraction <<num, den>>; minutes rounded to 2 decimals are kept as an  *)
(*    integer number of hundredths.                                        *)
(***************************************************************************)
EXTENDS Integers, Sequences, FiniteSets, TLC

\* ------------------------------------------------------------------ bounds
MaxEvents == 2      \* batches accepted by POST /events/batch in one run
MaxQueue == 2       \* events waiting in the extension's eventQueue
MaxTasks == 2       \* continuations of the extension waiting at one time
MaxClock == 3       \* browser events in one run
MaxCalls == 2       \* fit_transform / transform calls on one DataProcessor
MaxRows == 2        \* rows of the enumerated feature tables
MaxBatch == 2       \* events in one posted batch

\* ------------------------------------------------------- program constants
Hour == 60 * 60 * 1000
Day == 24 * Hour
Week == 7 * Day
BounceMs == 10000
TopHosts == 5

NULL == <<>>
Some(v) == <<v>>
IsNull(x) == x = <<>>
Val(x) == x[1]

NoHost == "<null>"
NoCategory == "<null>"

RECURSIVE GCD(_, _)
GCD(a, b) == IF b = 0 THEN a ELSE GCD(b, a % b)

Abs(x) == IF x < 0 THEN -x ELSE x

\* the double num/den (den > 0), as a reduced fraction
Frac(num, den) ==
  LET g == GCD(Abs(num), den) IN <<num \div g, den \div g>>

Zero == <<0, 1>>

\* ------------------------------------------------------------ server state
VARIABLES
  raw_events,     \* table raw_events, rows in id order
  daily_metrics,  \* table daily_metrics, a set of rows
  res,            \* the request last served and its response
  nPosted,        \* batches accepted so far (bounds the run)
  written         \* history: per day key, the FeatureRow of the last writer

\* --------------------------------------------------- DataProcessor state
VARIABLES
  self_df,        \* self.df, the frame the processor was constructed on
  scaler,         \* self._scaler
  report,         \* self._report
  ret,            \* the call made last and what it gave its caller
  calls,          \* calls made so far (bounds the run)
  fitSnap         \* history: the scaler and cleaned frame of the last fit

\* ------------------------------------------------------- extension state
VARIABLES
  eventQueue,          \* chrome.storage.local eventQueue, oldest event first
  settings,            \* chrome.storage.sync: enabled, excludeHosts
  tabActivity,         \* tabActivity: tab id -> url, host, category, activeSince
  currentActiveTabId,  \* currentActiveTabId
  tasks,               \* continuations waiting for the browser
  clock,               \* Date.now() of the last event
  page,                \* browser: open tab -> host of the page it shows
  exposed,             \* history: tabs whose open interval holds time on an excluded host
  dwellLog,            \* history: the dwell events handed to pushEvent
  shown                \* browser: the active tab of the focused window

serverVars == <<raw_events, daily_metrics, res, nPosted, written>>
processorVars == <<self_df, scaler, report, ret, calls, fitSnap>>
extensionVars == <<eventQueue, settings, tabActivity, currentActiveTabId, tasks, clock, page,
                   exposed, dwellLog, shown>>
vars == <<raw_events, daily_metrics, res, nPosted, written,
          self_df, scaler, report, ret, calls, fitSnap, eventQueue, settings,
          tabActivity, currentActiveTabId, tasks, clock, page, exposed, dwellLog,
          shown>>


\* events a client may put in the body of POST /events/batch
EventTemplates ==
  { [ts |-> Some(Hour), type |-> Some("dwell"), host |-> "a.com",
     category |-> "sns", dwell_ms |-> Some(5000), count |-> NULL],
    [ts |-> Some(Day), type |-> Some("dwell"), host |-> "c.com",
     category |-> "entertainment", dwell_ms |-> Some(95000), count |-> NULL],
    [ts |-> Some(13 * Hour), type |-> Some("dwell"), host |-> NoHost,
     category |-> NoCategory, dwell_ms |-> NULL, count |-> NULL],
    [ts |-> Some(14 * Hour), type |-> Some("dwell"), host |-> "a.com",
     category |-> "sns", dwell_ms |-> Some(-20000), count |-> NULL],
    [ts |-> Some(2 * Hour), type |-> Some("visit"), host |-> "google.com",
     category |-> "search_web", dwell_ms |-> Some(7000), count |-> NULL],
    [ts |-> NULL, type |-> Some("tab_count"), host |-> NoHost,
     category |-> NoCategory, dwell_ms |-> NULL, count |-> Some(3)] }

\* an events.db left by seed.js: dwell and visit rows on its hosts, a scroll
SeedRow(type, h, cat, ms, hr) ==
  [ts |-> hr * Hour, type |-> type, host |-> h, category |-> cat,
   dwell_ms |-> ms, count |-> NULL]

SeededLog ==
  << SeedRow("dwell", "www.google.com", "search", Some(60000), 7),
     SeedRow("dwell", "www.youtube.com", "entertainment", Some(50000), 8),
     SeedRow("dwell", "www.instagram.com", "sns", Some(40000), 9),
     SeedRow("dwell", "en.wikipedia.org", "education", Some(30000), 10),
     SeedRow("dwell", "www.bbc.com", "news", Some(20000), 11),
     SeedRow("dwell", "github.com", "education", Some(9000), 3),
     SeedRow("visit", "other.site.com", "other", Some(80000), 12),
     SeedRow("scroll", NoHost, NoCategory, NULL, 13) >>

\* a day with three sessions of 5, 15 and 95 seconds
ScenarioALog ==
  << SeedRow("dwell", "a.com", "other", Some(5000), 7),
     SeedRow("dwell", "b.com", "other", Some(15000), 8),
     SeedRow("dwell", "c.com", "other", Some(95000), 9) >>

\* two sessions around the bounce limit of ten seconds, one on Monday and
\* one on Tuesday, and a search on Tuesday
BounceLog ==
  << SeedRow("dwell", "a.com", "other", Some(10000), 7),
     SeedRow("dwell", "b.com", "other", Some(10001), 24 + 8),
     SeedRow("visit", "www.google.com", "search", NULL, 24 + 9) >>

\* the seeded day with the fifth and the sixth host at equal totals
TieLog == [SeededLog EXCEPT ![6].dwell_ms = Some(20000)]

\* ------------------------------------------------------- POST /events/batch
\* the row insert.run() stores for a posted event
InsertRow(e, now) ==
  [ts |-> IF IsNull(e.ts) THEN now ELSE Val(e.ts),
   type |-> IF IsNull(e.type) THEN "unknown" ELSE Val(e.type),
   host |-> e.host, category |-> e.category,
   dwell_ms |-> e.dwell_ms, count |-> e.count]

RECURSIVE InsertAll(_, _, _)
InsertAll(tbl, events, now) ==
  IF events = <<>> THEN tbl
  ELSE InsertAll(Append(tbl, InsertRow(Head(events), now)), Tail(events), now)

\* ------------------------------------------------------------ computeMetrics
\* ts BETWEEN @a AND @b
Between(ts, a, b) == a <= ts /\ ts <= b

\* strftime('%H', datetime(ts/1000,'unixepoch','localtime')) BETWEEN '00' AND '05'
LocalHour(ts) == (ts % Day) \div Hour
LateNight(ts) == LocalHour(ts) >= 0 /\ LocalHour(ts) <= 5

\* category = 'search' OR category LIKE 'search_%'
SearchCategories == {"search", "search_web", "search_news", "search_images", "search_videos"}

RECURSIVE SumNullable(_, _)
\* SUM(dwell_ms) over the rows with index in S: NULL when no row has a value
SumNullable(tbl, S) ==
  IF S = {} THEN NULL
  ELSE LET i == CHOOSE j \in S : TRUE
           rest == SumNullable(tbl, S \ {i})
           x == tbl[i].dwell_ms
       IN IF IsNull(x) THEN rest
          ELSE IF IsNull(rest) THEN x ELSE Some(Val(x) + Val(rest))

Coalesce0(x) == IF IsNull(x) THEN 0 ELSE Val(x)

DwellRows(tbl, a, b) ==
  {i \in DOMAIN tbl : tbl[i].type = "dwell" /\ Between(tbl[i].ts, a, b)}

\* a plausible slip: the top-hosts query without its type = 'dwell' filter
HostRowsAnyType(tbl, a, b) ==
  {i \in DOMAIN tbl : Between(tbl[i].ts, a, b)}

\* rows grouped by the top-hosts query
HostRows(tbl, a, b) == DwellRows(tbl, a, b)

RECURSIVE SumSet(_, _)
SumSet(f, S) ==
  IF S = {} THEN 0
  ELSE LET i == CHOOSE j \in S : TRUE IN f[i] + SumSet(f, S \ {i})

MaxOf(f, S) == CHOOSE m \in {f[i] : i \in S} : \A i \in S : f[i] <= m

\* Math.round((ms / 60000) * 100) / 100 for ms = num/den, in hundredths:
\* floor(ms / 600 + 1/2)
\* (the double product differs from this only at a tie, ms % 600 = 300, where
\* it may fall just below the half; no window of the logs below gives one)
toMin(num, den) == (2 * num + 600 * den) \div (2 * 600 * den)

safeRatio(num, den) == IF den > 0 THEN Frac(num, den) ELSE Zero

\* a plausible slip: the ORDER BY left out, LIMIT 5 of the groups as they come
GreaterEqAnyOrder(x, y) == TRUE

\* ORDER BY ms DESC: NULL sorts after every number
GreaterEq(x, y) == IsNull(y) \/ (~IsNull(x) /\ Val(x) >= Val(y))

RECURSIVE TopSum(_, _, _)
\* topHosts.reduce((sum, row) => sum + row.ms, 0) over the first k groups
TopSum(ms, hosts, k) ==
  IF k = 0 \/ hosts = {} THEN 0
  ELSE LET h == CHOOSE g \in hosts : \A g2 \in hosts : GreaterEq(ms[g], ms[g2])
       IN Coalesce0(ms[h]) + TopSum(ms, hosts \ {h}, k - 1)

RECURSIVE TopSums(_, _, _)
\* the same sum for every order ORDER BY ms DESC may give to groups with
\* equal ms: each next group is any of the groups no other group precedes
TopSums(ms, hosts, k) ==
  IF k = 0 \/ hosts = {} THEN {0}
  ELSE UNION { {Coalesce0(ms[h]) + rest : rest \in TopSums(ms, hosts \ {h}, k - 1)} :
                 h \in {g \in hosts : \A g2 \in hosts : GreaterEq(ms[g], ms[g2])} }

\* GROUP BY host: the groups of the top-hosts query and their SUM(dwell_ms)
Hosts(tbl, a, b) == {tbl[i].host : i \in HostRows(tbl, a, b)}
HostMs(tbl, a, b) ==
  [h \in Hosts(tbl, a, b) |->
     SumNullable(tbl, {i \in HostRows(tbl, a, b) : tbl[i].host = h})]

\* a plausible slip: the comment of line 141, under ten seconds
IsBounceStrict(ms) == ms < BounceMs

\* sessions.filter(ms => ms <= 10000)
IsBounce(ms) == ms <= BounceMs

\* the FeatureRow of lines 105-182, topMs being the sum of the rows the
\* top-hosts query returned
Metrics(tbl, aMs, bMs, topMs) ==
  LET dwell == DwellRows(tbl, aMs, bMs)
      dwellTotal == Coalesce0(SumNullable(tbl, dwell))
      late == Coalesce0(SumNullable(tbl, {i \in dwell : LateNight(tbl[i].ts)}))
      snsEnt == Coalesce0(SumNullable(tbl,
                  {i \in dwell : tbl[i].category \in {"sns", "entertainment"}}))
      sessions == {i \in dwell : ~IsNull(tbl[i].dwell_ms)}
      ms == [i \in sessions |-> Val(tbl[i].dwell_ms)]
      n == Cardinality(sessions)
      sessionMax == IF n > 0 THEN MaxOf(ms, sessions) ELSE 0
      shortCnt == Cardinality({i \in sessions : IsBounce(ms[i])})
      bounceRatio == IF n > 0 THEN Frac(shortCnt, n) ELSE Zero
      tabs == {i \in DOMAIN tbl : /\ tbl[i].type = "tab_count"
                                  /\ Between(tbl[i].ts, aMs, bMs)
                                  /\ ~IsNull(tbl[i].count)}
      cnt == [i \in tabs |-> Val(tbl[i].count)]
      nTabs == Cardinality(tabs)
      \* Number((AVG(count) || 0).toFixed(2)), in hundredths
      avgTabCnt == IF nTabs = 0 THEN 0
                   ELSE (200 * SumSet(cnt, tabs) + nTabs) \div (2 * nTabs)
      searchFreq == Cardinality({i \in DOMAIN tbl :
                       /\ tbl[i].type = "visit"
                       /\ Between(tbl[i].ts, aMs, bMs)
                       /\ tbl[i].category \in SearchCategories})
      repeatSiteRatio == IF dwellTotal > 0 THEN Frac(topMs, dwellTotal) ELSE Zero
  IN [ total_usage |-> toMin(dwellTotal, 1),
       late_night_ratio |-> safeRatio(late, dwellTotal),
       sns_ent_ratio |-> safeRatio(snsEnt, dwellTotal),
       session_length_max |-> toMin(sessionMax, 1),
       session_length_mean |-> IF n > 0 THEN toMin(SumSet(ms, sessions), n) ELSE 0,
       bounce_ratio |-> bounceRatio,
       avg_tab_cnt |-> avgTabCnt,
       search_freq |-> searchFreq,
       repeat_site_ratio |-> repeatSiteRatio ]

\* computeMetrics(aMs, bMs) on the table tbl, ties of the top-hosts query
\* taken in one fixed order
computeMetrics(tbl, aMs, bMs) ==
  Metrics(tbl, aMs, bMs, TopSum(HostMs(tbl, aMs, bMs), Hosts(tbl, aMs, bMs), TopHosts))

\* every FeatureRow computeMetrics(aMs, bMs) can return on the table tbl
FeatureRows(tbl, aMs, bMs) ==
  UNION { {Metrics(tbl, aMs, bMs, topMs) : topMs \in TopSums(ms, DOMAIN ms, TopHosts)} :
            ms \in {HostMs(tbl, aMs, bMs)} }

\* the prepared statements computeMetrics runs, in order: dwellTotal, late,
\* snsEnt, sessions, avgTabCnt, searchFreq, topHosts
NQueries == 7

\* a plausible slip: a failed query answered with the row of an empty window
OutcomeZeroFilled(failing, m) ==
  [failed |-> failing # 0, raised |-> FALSE,
   m |-> IF failing = 0 THEN m ELSE Metrics(<<>>, 0, 0, 0)]

\* what a call of computeMetrics gives its caller when statement number
\* failing throws (0: none does): nothing catches inside computeMetrics
Outcome(failing, m) ==
  [failed |-> failing # 0, raised |-> failing # 0, m |-> IF failing = 0 THEN m ELSE NULL]

\* new Date(t).setHours(0, 0, 0, 0)
startOfLocalDayMs(t) == t - (t % Day)

\* Date.getDay(), 0 for Sunday: instant 0 is a Monday 00:00 local time
getDay(d) == ((d \div Day) + 1) % 7

\* startOfLocalWeekMs: setDate(getDate() - day + (day === 0 ? -6 : 1))
startOfLocalWeekMs(t) ==
  LET d == startOfLocalDayMs(t)
      day == getDay(d)
      diff == (IF day = 0 THEN 0 - 6 ELSE 1) - day
  IN d + diff * Day

\* a plausible slip: a plain INSERT into a table without the primary key
DailyInsert(tbl, key, m) == tbl \cup {[day_start_ms |-> key, m |-> m]}

\* INSERT OR REPLACE INTO daily_metrics: the row with the same key goes
DailyUpsert(tbl, key, m) ==
  {r \in tbl : r.day_start_ms # key} \cup {[day_start_ms |-> key, m |-> m]}

\* values of the dayStart query parameter as metrics_demo.js sends it: absent,
\* "0", a local midnight
DayStartParams == {NULL, Some(0), Some(Day)}
\* values any client may send: also a noon
AnyDayStartParams == DayStartParams \cup {Some(12 * Hour)}
Clock == {Hour, Day + Hour}

\* values of the weekStart query parameter: absent, "0", a Tuesday midnight
WeekStartParams == {NULL, Some(0), Some(Day)}
\* Date.now() of a weekly request: a Monday, a Tuesday, a Sunday
WeekClock == {Hour, Day + Hour, 6 * Day + Hour}

\* Number(req.query.dayStart) || startOfLocalDayMs(Date.now())
DayStartOf(q, now) ==
  IF IsNull(q) \/ Val(q) = 0 THEN startOfLocalDayMs(now) ELSE Val(q)

PostEventsBatch ==
  \E now \in Clock, e \in EventTemplates \cup {NULL} :
    IF e = NULL
    THEN /\ res' = [path |-> "/events/batch", status |-> 400]
         /\ UNCHANGED <<raw_events, daily_metrics, nPosted, written>>
         /\ UNCHANGED <<processorVars, extensionVars>>
    ELSE /\ nPosted < MaxEvents
         /\ nPosted' = nPosted + 1
         /\ raw_events' = InsertAll(raw_events, <<e>>, now)
         /\ res' = [path |-> "/events/batch", status |-> 201, inserted |-> 1]
         /\ UNCHANGED <<daily_metrics, written>>
         /\ UNCHANGED <<processorVars, extensionVars>>

\* a value better-sqlite3 cannot bind (an object, an array, a boolean), in
\* the place of an event's host
Unbindable == "<object>"

\* events of posted batches: one the table takes and one whose insert throws
BatchEvents ==
  { [ts |-> NULL, type |-> NULL, host |-> NoHost,
     category |-> NoCategory, dwell_ms |-> NULL, count |-> Some(3)],
    [ts |-> Some(Hour), type |-> Some("visit"), host |-> Unbindable,
     category |-> "other", dwell_ms |-> NULL, count |-> NULL] }

\* the sequences over S of length 1 to n
RECURSIVE Batches(_, _)
Batches(S, n) ==
  IF n = 0 THEN {}
  ELSE {<<e>> : e \in S} \cup {Append(b, e) : b \in Batches(S, n - 1), e \in S}

\* req.body: without events, with events that is no array, with an array
Bodies ==
  {[kind |-> k, events |-> <<>>] : k \in {"missing", "object", "array"}}
    \cup {[kind |-> "array", events |-> b] : b \in Batches(BatchEvents, MaxBatch)}

\* the loop of insert.run() over rows: the table it leaves and whether a
\* run threw
RECURSIVE RunInserts(_, _, _)
RunInserts(tbl, rows, now) ==
  IF rows = <<>> THEN [tbl |-> tbl, threw |-> FALSE]
  ELSE IF Head(rows).host = Unbindable THEN [tbl |-> tbl, threw |-> TRUE]
  ELSE RunInserts(Append(tbl, InsertRow(Head(rows), now)), Tail(rows), now)

\* a plausible slip: the loop run outside a transaction
txNone(tbl, rows, now) == RunInserts(tbl, rows, now)

\* db.transaction(fn)(rows): commit, or roll back and rethrow
tx(tbl, rows, now) ==
  LET r == RunInserts(tbl, rows, now)
  IN IF r.threw THEN [tbl |-> tbl, threw |-> TRUE] ELSE r

\* POST /events/batch with any body; data_collector_2/server/server.js
\* answers a stored batch with 201, src/server.js with 200
PostBatch ==
  \E now \in Clock, body \in Bodies, created \in {201, 200} :
    /\ IF body.kind # "array" \/ Len(body.events) = 0
       THEN /\ res' = [path |-> "/events/batch", status |-> 400]
            /\ UNCHANGED <<raw_events, nPosted>>
       ELSE LET t == tx(raw_events, body.events, now)
            IN /\ raw_events' = t.tbl
               /\ IF t.threw
                  THEN /\ res' = [path |-> "/events/batch", status |-> 500,
                                  events |-> body.events]
                       /\ UNCHANGED nPosted
                  ELSE /\ nPosted < MaxEvents
                       /\ nPosted' = nPosted + 1
                       /\ res' = [path |-> "/events/batch", status |-> created,
                                  inserted |-> Len(body.events), events |-> body.events]
    /\ UNCHANGED <<daily_metrics, written>>
    /\ UNCHANGED <<processorVars, extensionVars>>

\* GET /metrics/daily with a query parameter of params: a throw of
\* computeMetrics leaves the handler at line 195 and express answers 500
MetricsDaily(params) ==
  \E dayStart \in {DayStartOf(q, now) : q \in params, now \in Clock} :
    LET dayEnd == dayStart + Day
    IN \E row \in FeatureRows(raw_events, dayStart, dayEnd) :
       \E o \in {Outcome(failing, row) : failing \in 0..NQueries} :
       IF o.raised
       THEN /\ res' = [path |-> "/metrics/daily", status |-> 500,
                       a |-> dayStart, b |-> dayEnd, failed |-> o.failed]
            /\ UNCHANGED <<raw_events, daily_metrics, nPosted, written>>
            /\ UNCHANGED <<processorVars, extensionVars>>
       ELSE /\ daily_metrics' = DailyUpsert(daily_metrics, dayStart, o.m)
            /\ written' = [k \in DOMAIN written \cup {dayStart} |->
                              IF k = dayStart
                              THEN [m |-> o.m,
                                    replaced |-> \E r \in daily_metrics :
                                       r.day_start_ms = k /\ r.m # o.m]
                              ELSE written[k]]
            /\ res' = [path |-> "/metrics/daily", status |-> 200,
                       a |-> dayStart, b |-> dayEnd, m |-> o.m, failed |-> o.failed]
            /\ UNCHANGED <<raw_events, nPosted>>
            /\ UNCHANGED <<processorVars, extensionVars>>

\* the requests of the demo client
GetMetricsDaily == MetricsDaily(DayStartParams)

\* the requests of any client
GetMetricsDailyAt == MetricsDaily(AnyDayStartParams)

\* Number(req.query.weekStart) || startOfLocalWeekMs(Date.now())
WeekStartOf(q, now) ==
  IF IsNull(q) \/ Val(q) = 0 THEN startOfLocalWeekMs(now) ELSE Val(q)

\* a plausible slip: the day length of the daily handler left in place
WeekEndOfOneDay(weekStart) == weekStart + Day

\* weekEnd = weekStart + 7 * 24 * 60 * 60 * 1000
WeekEndOf(weekStart) == weekStart + Week

\* GET /metrics/weekly: computes and answers, stores nothing
GetMetricsWeekly ==
  \E weekStart \in {WeekStartOf(q, now) : q \in WeekStartParams, now \in WeekClock} :
    LET weekEnd == WeekEndOf(weekStart)
    IN \E row \in FeatureRows(raw_events, weekStart, weekEnd) :
       \E o \in {Outcome(failing, row) : failing \in 0..NQueries} :
       /\ res' = IF o.raised
                 THEN [path |-> "/metrics/weekly", status |-> 500,
                       a |-> weekStart, b |-> weekEnd, failed |-> o.failed]
                 ELSE [path |-> "/metrics/weekly", status |-> 200,
                       a |-> weekStart, b |-> weekEnd, m |-> o.m, failed |-> o.failed]
       /\ UNCHANGED <<raw_events, daily_metrics, nPosted, written>>
       /\ UNCHANGED <<processorVars, extensionVars>>

\* the windows computeMetrics is applied to: days, a week, and windows whose
\* end is not after their start
Windows == {<<0, Day>>, <<Day, 2 * Day>>, <<0, Week>>, <<Day, Day>>, <<Day, 0>>}

\* a call computeMetrics(aMs, bMs)
ComputeMetrics ==
  \E w \in Windows :
    \E row \in FeatureRows(raw_events, w[1], w[2]) :
    \E o \in {Outcome(failing, row) : failing \in 0..NQueries} :
      /\ res' = IF o.raised
                THEN [path |-> "computeMetrics", outcome |-> "throw", a |-> w[1], b |-> w[2]]
                ELSE [path |-> "computeMetrics", outcome |-> "return", a |-> w[1], b |-> w[2],
                      m |-> o.m]
      /\ UNCHANGED <<raw_events, daily_metrics, nPosted, written>>
      /\ UNCHANGED <<processorVars, extensionVars>>

ServerNext == PostEventsBatch \/ GetMetricsDaily

\* clients posting batches of any shape
BatchNext == PostBatch

\* the aggregator and the weekly endpoint over a growing log
MetricsNext == PostEventsBatch \/ ComputeMetrics \/ GetMetricsWeekly

\* both endpoints asked by any client over a log at rest
WindowsNext == GetMetricsDailyAt \/ GetMetricsWeekly

\* ============================================================ DataProcessor
\* A DataFrame is [columns |-> set of names, rows |-> sequence of rows], a row
\* a function from the columns to cells; row i has index label i - 1.
\* A cell is Num(v), NaN or Text (a string no parser accepts).  A number v
\* is kept exactly as the integer v * Unit; Unit is a power of two large
\* enough that every median, quartile and IQR bound of the enumerated
\* tables is a whole number of 1/Unit.
Unit == 2 ^ 5
NaN == <<>>
Num(v) == <<v>>
Text == <<"abc", "text">>
IsNa(x) == x = NaN
IsIntegral(v) == v % Unit = 0

REQUIRED_COLUMNS ==
  << "period_start", "period_end", "session_length_max", "session_length_mean",
     "avg_tab_cnt", "search_freq", "ad_click_rate" >>
NUMERIC_COLUMNS ==
  << "session_length_max", "session_length_mean", "avg_tab_cnt", "search_freq" >>
RATIO_COLUMNS == << "ad_click_rate" >>
INTEGER_COLUMNS == << "avg_tab_cnt", "search_freq" >>

Range(s) == {s[i] : i \in DOMAIN s}

\* pd.DataFrame()
EmptyFrame == [columns |-> {}, rows |-> <<>>]

\* pd.to_numeric(errors="coerce") / pd.to_datetime(errors="coerce") of a cell
to_numeric(x) == IF Len(x) = 1 THEN x ELSE NaN
\* a plausible slip: every parse shifts the timestamp by the local UTC
\* offset, also one that was parsed before
to_datetime_shift(x) == IF Len(x) = 1 THEN <<x[1] + 1>> ELSE <<>>

to_datetime(x) == IF Len(x) = 1 THEN x ELSE NaN

\* 1-2 and 1-3: df[c] = pd.to_numeric(df[c]) for the numeric and ratio
\* columns, df[col] = pd.to_datetime(df[col]) for the two date columns
Coerce(df) ==
  [df EXCEPT !.rows = [i \in DOMAIN df.rows |-> [c \in df.columns |->
     IF c \in Range(NUMERIC_COLUMNS \o RATIO_COLUMNS) THEN to_numeric(df.rows[i][c])
     ELSE IF c \in {"period_start", "period_end"} THEN to_datetime(df.rows[i][c])
     ELSE df.rows[i][c]]]]

\* the positions of the rows a boolean mask selects, in index order
Failing(df, selected) ==
  SelectSeq([i \in 1 .. Len(df.rows) |-> i], LAMBDA i : i \in selected)

FailureRow(idx, column, reason, value) ==
  [index |-> idx - 1, column |-> column, reason |-> reason, value |-> value]

\* a plausible slip: the missing-column check never finds anything
MissingColumnsNone(df) == <<>>

\* missing_cols = [c for c in self.REQUIRED_COLUMNS if c not in df.columns]
MissingColumns(df) == SelectSeq(REQUIRED_COLUMNS, LAMBDA c : c \notin df.columns)

\* 1-3: period_end < period_start where both parsed
DateFailures(df) ==
  IF {"period_start", "period_end"} \subseteq df.columns
  THEN LET bad == Failing(df, {i \in DOMAIN df.rows :
                    /\ ~IsNa(df.rows[i]["period_start"]) /\ ~IsNa(df.rows[i]["period_end"])
                    /\ Val(df.rows[i]["period_end"]) < Val(df.rows[i]["period_start"])})
       IN [k \in DOMAIN bad |->
             FailureRow(bad[k], "period_start/period_end", "end_before_start",
                        <<df.rows[bad[k]]["period_start"], df.rows[bad[k]]["period_end"]>>)]
  ELSE <<>>

\* a plausible slip: the bounds of the ratio check taken exclusive
RatioFailuresExclusive(df, c) ==
  IF c \in df.columns
  THEN LET bad == Failing(df, {i \in DOMAIN df.rows :
                    /\ ~IsNa(df.rows[i][c])
                    /\ (Val(df.rows[i][c]) <= 0 \/ Val(df.rows[i][c]) >= Unit)})
       IN [k \in DOMAIN bad |->
             FailureRow(bad[k], c, "ratio_out_of_bounds", df.rows[bad[k]][c])]
  ELSE <<>>

\* 1-4: (df[c].notna()) & ((df[c] < 0) | (df[c] > 1))
RatioFailures(df, c) ==
  IF c \in df.columns
  THEN LET bad == Failing(df, {i \in DOMAIN df.rows :
                    /\ ~IsNa(df.rows[i][c])
                    /\ (Val(df.rows[i][c]) < 0 \/ Val(df.rows[i][c]) > Unit)})
       IN [k \in DOMAIN bad |->
             FailureRow(bad[k], c, "ratio_out_of_bounds", df.rows[bad[k]][c])]
  ELSE <<>>

\* a plausible slip: max <= mean flagged, equality included
LogicFailuresNotGreater(df) ==
  IF {"session_length_max", "session_length_mean"} \subseteq df.columns
  THEN LET bad == Failing(df, {i \in DOMAIN df.rows :
                    /\ ~IsNa(df.rows[i]["session_length_max"])
                    /\ ~IsNa(df.rows[i]["session_length_mean"])
                    /\ Val(df.rows[i]["session_length_max"]) <= Val(df.rows[i]["session_length_mean"])})
       IN [k \in DOMAIN bad |->
             FailureRow(bad[k], "session_length_max/mean", "max_less_than_mean", <<"N/A">>)]
  ELSE <<>>

\* a plausible slip: the max-versus-mean check left out
LogicFailuresNone(df) == <<>>

\* 1-5: session_length_max < session_length_mean where both present
LogicFailures(df) ==
  IF {"session_length_max", "session_length_mean"} \subseteq df.columns
  THEN LET bad == Failing(df, {i \in DOMAIN df.rows :
                    /\ ~IsNa(df.rows[i]["session_length_max"])
                    /\ ~IsNa(df.rows[i]["session_length_mean"])
                    /\ Val(df.rows[i]["session_length_max"]) < Val(df.rows[i]["session_length_mean"])})
       IN [k \in DOMAIN bad |->
             FailureRow(bad[k], "session_length_max/mean", "max_less_than_mean", <<"N/A">>)]
  ELSE <<>>

\* 1-6: df[c].notna() & ((df[c].astype(float) % 1) != 0)
IntegerFailures(df, c) ==
  IF c \in df.columns
  THEN LET bad == Failing(df, {i \in DOMAIN df.rows :
                    ~IsNa(df.rows[i][c]) /\ ~IsIntegral(Val(df.rows[i][c]))})
       IN [k \in DOMAIN bad |->
             FailureRow(bad[k], c, "non_integer_value", df.rows[bad[k]][c])]
  ELSE <<>>

\* a plausible slip: the checks short-circuit, only the first check that
\* finds a failing row reports
FailureRowsShortCircuit(df) ==
  IF DateFailures(df) # <<>> THEN DateFailures(df)
  ELSE IF RatioFailures(df, RATIO_COLUMNS[1]) # <<>> THEN RatioFailures(df, RATIO_COLUMNS[1])
  ELSE IF LogicFailures(df) # <<>> THEN LogicFailures(df)
  ELSE IF IntegerFailures(df, INTEGER_COLUMNS[1]) # <<>>
  THEN IntegerFailures(df, INTEGER_COLUMNS[1])
  ELSE IntegerFailures(df, INTEGER_COLUMNS[2])

\* failure_rows after 1-3 .. 1-6: every check appends its rows, in the order
\* the checks run and, within a check, in index order
FailureRows(df) ==
  DateFailures(df)
    \o RatioFailures(df, RATIO_COLUMNS[1])
    \o LogicFailures(df)
    \o IntegerFailures(df, INTEGER_COLUMNS[1])
    \o IntegerFailures(df, INTEGER_COLUMNS[2])

\* report['validation'] after a passed validation
ValidationPass == [status |-> "pass", problems |-> 0, failure_rows |-> 0,
                   missing_columns |-> <<>>]

\* _validate_data(df) with self._report['validation'] = validation: what it
\* raises or returns, the report entry it leaves and the failure rows it
\* exports to validation_failures.csv
_validate_data(validation, df) ==
  LET missing_cols == MissingColumns(df)
      coerced == Coerce(df)
      failure_rows == FailureRows(coerced)
      problems == Len(failure_rows)
  IN IF missing_cols # <<>>
     THEN [raised |-> "MissingColumns", missing |-> missing_cols, problems |-> 0,
           failure_rows |-> <<>>, csv |-> FALSE, df |-> EmptyFrame, returned |-> FALSE,
           validation |-> [validation EXCEPT !.missing_columns = missing_cols]]
     ELSE IF problems > 0
     THEN [raised |-> "ValidationFailed", missing |-> <<>>, problems |-> problems,
           failure_rows |-> failure_rows, csv |-> TRUE, df |-> EmptyFrame,
           returned |-> FALSE, validation |-> validation]
     ELSE [raised |-> "", missing |-> <<>>, problems |-> 0,
           failure_rows |-> <<>>, csv |-> FALSE, df |-> coerced, returned |-> TRUE,
           validation |-> ValidationPass]

\* ---------------------------------------------------------- _preprocess_data
IqrMinRows == 8

RECURSIVE Insert(_, _)
Insert(x, s) ==
  IF s = <<>> THEN <<x>>
  ELSE IF x <= Head(s) THEN <<x>> \o s
  ELSE <<Head(s)>> \o Insert(x, Tail(s))

RECURSIVE Sort(_)
Sort(s) == IF s = <<>> THEN <<>> ELSE Insert(Head(s), Sort(Tail(s)))

\* df[c].dropna(), as numbers
Present(df, c) ==
  LET cells == SelectSeq([i \in DOMAIN df.rows |-> df.rows[i][c]], LAMBDA x : ~IsNa(x))
  IN [k \in DOMAIN cells |-> Val(cells[k])]

NaCount(df, c) == Cardinality({i \in DOMAIN df.rows : IsNa(df.rows[i][c])})

\* Series.median(skipna=True): NaN for a column without values
Median(df, c) ==
  LET s == Sort(Present(df, c))
      n == Len(s)
  IN IF n = 0 THEN NaN
     ELSE IF n % 2 = 1 THEN Num(s[(n + 1) \div 2])
     ELSE Num((s[n \div 2] + s[n \div 2 + 1]) \div 2)

\* a plausible slip: the filled integer column is not rounded
RoundNone(v) == v

\* Series.round(): half to even
Round(v) ==
  LET q == v \div Unit
      r == v % Unit
  IN IF 2 * r < Unit THEN q * Unit
     ELSE IF 2 * r > Unit THEN (q + 1) * Unit
     ELSE IF q % 2 = 0 THEN q * Unit ELSE (q + 1) * Unit

fillna(x, value) == IF IsNa(x) THEN value ELSE x
RoundCell(x) == IF IsNa(x) THEN x ELSE Num(Round(Val(x)))
\* Series.clip(lower=0.0, upper=1.0)
clip(x) ==
  IF IsNa(x) THEN x
  ELSE IF Val(x) < 0 THEN Num(0) ELSE IF Val(x) > Unit THEN Num(Unit) ELSE x

\* 2-1: median imputation (integer columns rounded), ratio columns filled
\* with 0.0 and clipped
Impute(df) ==
  [df EXCEPT !.rows = [i \in DOMAIN df.rows |-> [c \in df.columns |->
     IF c \in Range(INTEGER_COLUMNS)
     THEN RoundCell(fillna(df.rows[i][c], Median(df, c)))
     ELSE IF c \in Range(NUMERIC_COLUMNS)
     THEN fillna(df.rows[i][c], Median(df, c))
     ELSE IF c \in Range(RATIO_COLUMNS)
     THEN clip(fillna(df.rows[i][c], Num(0)))
     ELSE df.rows[i][c]]]]

LogEntry(msg, c, n, a, b) == [msg |-> msg, col |-> c, n |-> n, a |-> a, b |-> b]

\* the entries 2-1 appends to self._report['preprocessing_log']
ImputeLog(df) ==
  LET numeric == SelectSeq(NUMERIC_COLUMNS, LAMBDA c : c \in df.columns)
      ratio == SelectSeq(RATIO_COLUMNS, LAMBDA c : c \in df.columns)
  IN [k \in DOMAIN numeric |->
        LogEntry("fillna_median", numeric[k], NaCount(df, numeric[k]),
                 Median(df, numeric[k]), NaN)]
     \o [k \in DOMAIN ratio |->
        LogEntry("fillna_zero_clip", ratio[k], NaCount(df, ratio[k]), Num(0), Num(Unit))]

\* Series.quantile(k / 4), linear interpolation, of a sorted column
Quantile(s, k) ==
  LET pos == (Len(s) - 1) * k
      lo == pos \div 4 + 1
      fr == pos % 4
  IN IF fr = 0 THEN s[lo] ELSE s[lo] + (fr * (s[lo + 1] - s[lo])) \div 4

IqrBounds(s) ==
  LET Q1 == Quantile(s, 1)
      Q3 == Quantile(s, 3)
      IQR == Q3 - Q1
  IN [IQR |-> IQR, lower |-> Q1 - (3 * IQR) \div 2, upper |-> Q3 + (3 * IQR) \div 2]

CapCell(x, b) ==
  IF IsNa(x) THEN x
  ELSE IF Val(x) < b.lower THEN Num(b.lower)
  ELSE IF Val(x) > b.upper THEN Num(b.upper) ELSE x

RECURSIVE CapColumns(_, _, _, _)
\* 2-2: IQR capping of the numeric columns, in order.  Writing a
\* non-integral bound into an Int64 column raises TypeError or upcasts the
\* column, depending on the pandas build: upcast chooses.
CapColumns(cols, df, log, upcast) ==
  IF cols = <<>> THEN [raised |-> "", df |-> df, log |-> log]
  ELSE LET c == Head(cols)
           s == Sort(Present(df, c))
           b == IqrBounds(s)
           outlier_count ==
             Cardinality({i \in DOMAIN df.rows :
                ~IsNa(df.rows[i][c]) /\ CapCell(df.rows[i][c], b) # df.rows[i][c]})
       IN IF c \notin df.columns \/ Len(s) < IqrMinRows
          THEN CapColumns(Tail(cols), df, log, upcast)
          ELSE IF b.IQR <= 0 \/ outlier_count = 0
          THEN CapColumns(Tail(cols), df, log, upcast)
          ELSE IF /\ c \in Range(INTEGER_COLUMNS)
                  /\ ~(IsIntegral(b.lower) /\ IsIntegral(b.upper))
                  /\ ~upcast
          THEN [raised |-> "TypeError", df |-> df, log |-> log]
          ELSE CapColumns(Tail(cols),
                          [df EXCEPT !.rows = [i \in DOMAIN df.rows |->
                              [df.rows[i] EXCEPT ![c] = CapCell(@, b)]]],
                          Append(log, LogEntry("iqr_cap", c, outlier_count,
                                               Num(b.lower), Num(b.upper))),
                          upcast)

\* _preprocess_data(df) with self._report['preprocessing_log'] = log
_preprocess_data(log, df, upcast) ==
  LET imputed == Impute(df)
      capped == CapColumns(NUMERIC_COLUMNS, imputed, log \o ImputeLog(df), upcast)
  IN [raised |-> capped.raised, imputed |-> imputed, df |-> capped.df, log |-> capped.log]

\* ------------------------------------------------------------ StandardScaler
\* The fitted parameters of a column with n values of sum S and sum of
\* squares SQ: mean_ = S / n and scale_ = sqrt(var_) with var_ =
\* (n * SQ - S * S) / n^2, a zero variance giving scale_ = 1.  They are kept
\* as <<n, S, A, B>> with scale_^2 = A / B.
ColumnParams(df, c) ==
  LET s == Present(df, c)
      n == Len(s)
      S == SumSet(s, DOMAIN s)
      SQ == SumSet([k \in DOMAIN s |-> s[k] * s[k]], DOMAIN s)
      V == n * SQ - S * S
  IN IF V = 0 THEN <<n, S, Unit * Unit, 1>> ELSE <<n, S, V, n * n>>

\* cols_to_scale
ColsToScale(df) == SelectSeq(NUMERIC_COLUMNS \o RATIO_COLUMNS, LAMBDA c : c \in df.columns)

\* StandardScaler().fit(df[cols_to_scale])
FitScaler(df) ==
  [fitted |-> TRUE, params |-> [c \in Range(ColsToScale(df)) |-> ColumnParams(df, c)]]

None == [fitted |-> FALSE, params |-> <<>>]

\* (x - mean_) / scale_ of a cell: <<n * x - S, n, A, B>> stands for
\* ((n * x - S) / n) / sqrt(A / B); a column fitted on no value gives NaN
Standardize(p, x) ==
  IF IsNa(x) \/ p[1] = 0 THEN NaN ELSE <<p[1] * Val(x) - p[2], p[1], p[3], p[4]>>

\* scaler.transform(df[cols_to_scale]) written back into the frame
ScaleFrame(sc, df) ==
  [df EXCEPT !.rows = [i \in DOMAIN df.rows |-> [c \in df.columns |->
     IF c \in DOMAIN sc.params THEN Standardize(sc.params[c], df.rows[i][c])
     ELSE df.rows[i][c]]]]

\* ------------------------------------------------------ objects and copies
\* A table object is named by the chain of copies that made it; the caller's
\* table is CallerObject.
CallerObject == <<"df">>

\* a plausible slip: the table is worked on in place, no copy taken
copyAlias(obj) == obj

\* DataFrame.copy(): a new object holding the same cells
copy(obj) == Append(obj, "copy")

\* the cells of the caller's table after column assignments left cells in
\* the object target
After(target, frame, cells) == IF target = CallerObject THEN cells ELSE frame

RECURSIVE CallerFrame(_, _, _)
\* Each stage (lines 59, 144, 203 / 241) copies the table it is given and
\* assigns the columns of its copy; writes lists the cells each stage that
\* ran left in its copy.  The result is the object the last stage wrote and
\* the cells of the caller's table afterwards.
CallerFrame(obj, frame, writes) ==
  IF writes = <<>> THEN [obj |-> obj, frame |-> frame]
  ELSE CallerFrame(copy(obj), After(copy(obj), frame, Head(writes)), Tail(writes))

\* what a call on the caller's table leaves: the cells of that table and the
\* object the call's table is
Caller(frame, writes) ==
  [input_after |-> CallerFrame(CallerObject, frame, writes).frame,
   table_obj |-> CallerFrame(CallerObject, frame, writes).obj]

\* ------------------------------------------------- fit_transform / transform
\* a plausible slip: transform without its "not fitted" guard
NotFittedNever(sc) == FALSE

\* if self._scaler is None
NotFitted(sc) == ~sc.fitted

\* a plausible slip: transform fitting a fresh scaler on the new data
TransformScalerRefit(sc, df) == FitScaler(df)

\* the scaler transform() applies: self._scaler
TransformScaler(sc, df) == sc

InitReport ==
  [validation |-> [status |-> "", problems |-> 0, failure_rows |-> 0,
                   missing_columns |-> <<>>],
   preprocessing_log |-> <<>>]

NoPre == [raised |-> "", imputed |-> EmptyFrame, df |-> EmptyFrame, log |-> <<>>]

\* what a call leaves for its caller: outcome "return" or "raise", the error
\* raised, the error fit_transform caught and printed, the table returned;
\* and, for the claims, the frames the call went through
Ret(op, input, outcome, error, caught, table, v, p) ==
  [op |-> op, input |-> input, outcome |-> outcome, error |-> error,
   caught |-> caught, table |-> table,
   missing |-> v.missing, problems |-> v.problems, failure_rows |-> v.failure_rows,
   csv |-> v.csv, validated |-> v.df, imputed |-> p.imputed, processed |-> p.df]

NoValidation ==
  [raised |-> "", missing |-> <<>>, problems |-> 0, failure_rows |-> <<>>,
   csv |-> FALSE, df |-> EmptyFrame, returned |-> FALSE, validation |-> InitReport.validation]

\* ------------------------------------------------------ enumerated tables
Half == Unit \div 2

Row(ps, pe, max, mean, tab, search, acr) ==
  [period_start |-> ps, period_end |-> pe, session_length_max |-> max,
   session_length_mean |-> mean, avg_tab_cnt |-> tab, search_freq |-> search,
   ad_click_rate |-> acr]

Good1 == Row(Num(1), Num(2), Num(3 * Unit), Num(2 * Unit), Num(3 * Unit), Num(4 * Unit), Num(Half))
Good2 == Row(Num(2), Num(2), Num(5 * Unit), Num(Unit + Half), Num(2 * Unit), Num(0), Num(0))
Gaps == Row(Text, Num(2), NaN, Text, NaN, Num(2 * Unit), NaN)
BadRatio == [Good1 EXCEPT !.ad_click_rate = Num(Unit + Half)]
BadLogic == [Good1 EXCEPT !.session_length_max = Num(2 * Unit),
                          !.session_length_mean = Num(3 * Unit)]
BadInteger == [Good1 EXCEPT !.avg_tab_cnt = Num(2 * Unit + Half)]
BadDates == [Good1 EXCEPT !.period_start = Num(2), !.period_end = Num(1)]

\* the ratio on its upper bound, max equal to mean
Edge == [Good2 EXCEPT !.ad_click_rate = Num(Unit), !.session_length_max = Num(Unit + Half)]
\* a ratio below 0
RatioNeg == [Good1 EXCEPT !.ad_click_rate = Num(0 - Half)]
\* negative values in a float and an integer column
Negative == [Good1 EXCEPT !.session_length_mean = Num(0 - Unit), !.search_freq = Num(0 - 2 * Unit)]
\* one row failing every check, both integer columns included
MultiBad ==
  Row(Num(2), Num(1), Num(2 * Unit), Num(3 * Unit), Num(2 * Unit + Half), Num(Half),
      Num(Unit + Half))

RowTemplates ==
  {Good1, Good2, Gaps, BadRatio, BadLogic, BadInteger, BadDates, Edge, RatioNeg, Negative,
   MultiBad}

Frame(rows) == [columns |-> Range(REQUIRED_COLUMNS), rows |-> rows]

DropColumn(df, c) ==
  [columns |-> df.columns \ {c},
   rows |-> [i \in DOMAIN df.rows |-> [k \in df.columns \ {c} |-> df.rows[i][k]]]]

\* a frame without ad_click_rate whose one row also has max < mean
MissingColumnFrame == DropColumn(Frame(<<BadLogic>>), "ad_click_rate")

\* eight rows, enough for IQR capping: session_length_max has an outlier,
\* avg_tab_cnt an outlier whose upper bound 5.5 is not integral
WideRow(max, tab) ==
  [Good1 EXCEPT !.session_length_max = Num(max * Unit), !.avg_tab_cnt = Num(tab * Unit)]

WideFrame ==
  Frame(<< WideRow(3, 1), WideRow(3, 1), WideRow(4, 2), WideRow(4, 2),
           WideRow(5, 3), WideRow(5, 3), WideRow(6, 4), WideRow(40, 20) >>)

SmallFrames ==
  {Frame(rows) : rows \in UNION {[1 .. n -> RowTemplates] : n \in 0 .. MaxRows}}

\* three rows whose avg_tab_cnt median, 2.5, fills a gap
GapFrame == Frame(<<Good1, Good2, Gaps>>)

\* eight valid rows: session_length_max has an outlier, 40, in the row whose
\* session_length_mean, 30, stands out of seven equal means
SkewRow(max, mean) ==
  [Good1 EXCEPT !.session_length_max = Num(max * Unit), !.session_length_mean = Num(mean * Unit)]

SkewFrame ==
  Frame(<< SkewRow(3, 1), SkewRow(3, 1), SkewRow(4, 1), SkewRow(4, 1),
           SkewRow(5, 1), SkewRow(5, 1), SkewRow(6, 1), SkewRow(40, 30) >>)

\* the frames a DataProcessor is constructed on
FitFrames == SmallFrames \cup {MissingColumnFrame, WideFrame, GapFrame, SkewFrame}

\* the frames handed to transform()
NewFrames ==
  { Frame(<<>>), Frame(<<Good2>>), Frame(<<Good1, Gaps>>), Frame(<<Good1, BadRatio>>),
    MissingColumnFrame, WideFrame }

FitTransform ==
  /\ calls < MaxCalls
  /\ calls' = calls + 1
  /\ UNCHANGED <<serverVars, extensionVars>>
  /\ \E upcast \in BOOLEAN :
     \E v \in {_validate_data(report.validation, self_df)} :
       IF v.raised # ""
       THEN \* except DataProcessingError: print, return pd.DataFrame(), self._report
            /\ report' = [report EXCEPT !.validation = v.validation]
            /\ \E c \in {Caller(self_df, IF v.raised = "MissingColumns" THEN <<>>
                                           ELSE <<Coerce(self_df)>>)} :
                 /\ ret' = Ret("fit_transform", self_df, "return", "", v.raised,
                               EmptyFrame, v, NoPre)
                            @@ [c EXCEPT !.table_obj = <<"DataFrame()">>]
                 /\ self_df' = c.input_after
            /\ fitSnap' = [fitSnap EXCEPT !.attempts = 1]
            /\ UNCHANGED scaler
       ELSE \E p \in {_preprocess_data(report.preprocessing_log, v.df, upcast)} :
            IF p.raised # "" \/ Len(p.df.rows) = 0
            THEN \* TypeError from the capping assignment, ValueError from
                 \* StandardScaler on a frame without rows: not caught
                 /\ report' = [validation |-> v.validation, preprocessing_log |-> p.log]
                 /\ \E c \in {Caller(self_df, <<v.df, p.df>>)} :
                      /\ ret' = Ret("fit_transform", self_df, "raise",
                                    IF p.raised # "" THEN p.raised ELSE "ValueError",
                                    "", EmptyFrame, v, p) @@ c
                      /\ self_df' = c.input_after
                 /\ fitSnap' = [fitSnap EXCEPT !.attempts = 1]
                 /\ UNCHANGED scaler
            ELSE \E sc \in {FitScaler(p.df)} :
                 /\ scaler' = sc
                 /\ report' = [validation |-> v.validation,
                               preprocessing_log |->
                                  Append(p.log, LogEntry("scaled", "cols_to_scale",
                                                         Len(ColsToScale(p.df)), NaN, NaN))]
                 /\ \E c \in {Caller(self_df, <<v.df, p.df, ScaleFrame(sc, p.df)>>)} :
                      /\ ret' = Ret("fit_transform", self_df, "return", "", "",
                                    ScaleFrame(sc, p.df), v, p) @@ c
                      /\ self_df' = c.input_after
                 /\ fitSnap' = [done |-> TRUE, attempts |-> 1, scaler |-> sc,
                                processed |-> p.df]

\* transform(df) on a processor with scaler sc and report rep: what the
\* caller gets, the report the call leaves and the cells each stage wrote
transform(sc, rep, df, upcast) ==
  LET v == _validate_data(rep.validation, df)
      p == _preprocess_data(rep.preprocessing_log, v.df, upcast)
  IN IF NotFitted(sc)
     THEN [ret |-> Ret("transform", df, "raise", "NotFitted", "", EmptyFrame,
                       NoValidation, NoPre),
           report |-> rep, writes |-> <<>>]
     ELSE IF v.raised # ""
     THEN [ret |-> Ret("transform", df, "raise", v.raised, "", EmptyFrame, v, NoPre),
           report |-> [rep EXCEPT !.validation = v.validation],
           writes |-> IF v.raised = "MissingColumns" THEN <<>> ELSE <<Coerce(df)>>]
     ELSE IF p.raised # "" \/ Len(p.df.rows) = 0 \/ ~sc.fitted
     THEN \* TypeError from the capping assignment, ValueError from
          \* StandardScaler on a frame without rows
          [ret |-> Ret("transform", df, "raise",
                       IF p.raised # "" THEN p.raised
                       ELSE IF ~sc.fitted THEN "AttributeError"
                       ELSE "ValueError",
                       "", EmptyFrame, v, p),
           report |-> [validation |-> v.validation, preprocessing_log |-> p.log],
           writes |-> <<v.df, p.df>>]
     ELSE [ret |-> Ret("transform", df, "return", "", "",
                       ScaleFrame(TransformScaler(sc, p.df), p.df), v, p),
           report |-> [validation |-> v.validation, preprocessing_log |-> p.log],
           writes |-> <<v.df, p.df, ScaleFrame(TransformScaler(sc, p.df), p.df)>>]

Transform ==
  /\ calls < MaxCalls
  /\ calls' = calls + 1
  /\ UNCHANGED <<self_df, scaler, fitSnap>>
  /\ UNCHANGED <<serverVars, extensionVars>>
  /\ \E new \in NewFrames, upcast \in BOOLEAN :
     \E t \in {transform(scaler, report, new, upcast)} :
       /\ ret' = t.ret @@ Caller(new, t.writes)
       /\ report' = t.report

ProcessorNext == FitTransform \/ Transform

\* -------------------------------------------------------- predict_dataframe
\* A probability is kept as a whole number of 1/ProbaUnit.
ProbaUnit == 10 ^ 4
DefaultThreshold == ProbaUnit \div 2

\* the classifier stored in model.pkl, as the set of the interfaces hasattr
\* finds on it; every classifier has predict
ModelKinds ==
  { {"predict_proba", "decision_function", "predict"}, {"predict_proba", "predict"},
    {"decision_function", "predict"}, {"predict"} }

\* the stored classifiers read one feature of a transformed row, the sign of
\* the standardized ad_click_rate
Feature(x) ==
  IF x["ad_click_rate"] = NaN THEN 0
  ELSE IF x["ad_click_rate"][1] < 0 THEN 0 - 1
  ELSE IF x["ad_click_rate"][1] > 0 THEN 1 ELSE 0

\* model.predict_proba(X)[:, 1]
predict_proba(f) == IF f < 0 THEN ProbaUnit \div 4 ELSE IF f = 0 THEN ProbaUnit \div 2 ELSE (9 * ProbaUnit) \div 10
\* model.decision_function(X)
decision_function(f) == f
\* 1 / (1 + np.exp(-scores)) for the scores -1, 0 and 1, to four decimals
sigmoid(score) == IF score < 0 THEN 2689 ELSE IF score = 0 THEN 5000 ELSE 7311
\* model.predict(X)
predict(f) == IF f > 0 THEN 1 ELSE 0

\* a plausible slip: the decision score asked for first
ProbaScoreFirst(kind, x) ==
  IF "decision_function" \in kind THEN sigmoid(decision_function(Feature(x)))
  ELSE IF "predict_proba" \in kind THEN predict_proba(Feature(x))
  ELSE predict(Feature(x)) * ProbaUnit

\* lines 54-64: the probability of a transformed row by the first interface
\* the classifier has, hard.astype(float) in the last case
Proba(kind, x) ==
  IF "predict_proba" \in kind THEN predict_proba(Feature(x))
  ELSE IF "decision_function" \in kind THEN sigmoid(decision_function(Feature(x)))
  ELSE predict(Feature(x)) * ProbaUnit

\* a plausible slip: the boundary excluded, proba > thr
risk_flag_strict(proba, thr) == IF proba > thr THEN 1 ELSE 0

\* flag = (proba >= thr).astype(int)
risk_flag(proba, thr) == IF proba >= thr THEN 1 ELSE 0

\* a plausible slip: only a missing table is rejected
IsEmptyInputNoneOnly(df) == df = NULL

\* df is None or df.empty: no table, or a table without rows or columns
IsEmptyInput(df) == df = NULL \/ df.rows = <<>> \/ df.columns = {}

\* main(): VALIDATION_CONFIG
VALIDATION_CONFIG ==
  [expected_columns |-> REQUIRED_COLUMNS, ratio_columns |-> RATIO_COLUMNS,
   float_columns |-> <<"session_length_max", "session_length_mean">>,
   int_columns |-> INTEGER_COLUMNS]

\* DataValidator(df, config).validate_features(): the checks of the
\* validator on a coerced copy
validate_features(df, config) ==
  IF \E k \in DOMAIN config.expected_columns : config.expected_columns[k] \notin df.columns
  THEN [passed |-> FALSE, problems |-> 0, df_valid |-> EmptyFrame]
  ELSE [passed |-> FailureRows(Coerce(df)) = <<>>,
        problems |-> Len(FailureRows(Coerce(df))), df_valid |-> Coerce(df)]

\* load_threshold(artifacts_dir, default): the stored threshold, the default
\* when threshold.json holds none
load_threshold(stored, default) == IF IsNull(stored) THEN default ELSE Val(stored)

\* out = df.copy(); out["risk_proba"] = proba; out["risk_flag"] = flag
AddRisk(df, proba, flag) ==
  [columns |-> df.columns \cup {"risk_proba", "risk_flag"},
   rows |-> [i \in DOMAIN df.rows |->
               [c \in df.columns \cup {"risk_proba", "risk_flag"} |->
                  IF c = "risk_proba" THEN Num(proba[i])
                  ELSE IF c = "risk_flag" THEN Num(flag[i])
                  ELSE df.rows[i][c]]]]

\* what predict_dataframe leaves for its caller, and how far it got: whether
\* the validator ran, the artifacts were loaded and transform was called
PredictRet(input, after, outcome, error, table, obj, ran_validator, loaded, ran_transform, source, thr, proba) ==
  [op |-> "predict_dataframe", input |-> input, input_after |-> after,
   outcome |-> outcome, error |-> error, table |-> table, table_obj |-> obj,
   ran_validator |-> ran_validator, loaded |-> loaded, ran_transform |-> ran_transform,
   source |-> source, thr |-> thr, proba |-> proba]

\* lines 33-44 of predict_dataframe: the emptiness check and the optional
\* validation; the table (and object) the later steps work on
PredictSource(df, do_validate, validation_config) ==
  IF IsEmptyInput(df)
  THEN [error |-> "EmptyInput", ran_validator |-> FALSE, frame |-> EmptyFrame, obj |-> <<>>]
  ELSE IF ~do_validate
  THEN [error |-> "", ran_validator |-> FALSE, frame |-> df, obj |-> CallerObject]
  ELSE IF validation_config = NULL
  THEN [error |-> "ValueError", ran_validator |-> FALSE, frame |-> EmptyFrame, obj |-> <<>>]
  ELSE IF \/ ~validate_features(df, validation_config).passed
          \/ validate_features(df, validation_config).problems > 0
  THEN [error |-> "FeatureValidationError", ran_validator |-> TRUE, frame |-> EmptyFrame,
        obj |-> <<>>]
  ELSE [error |-> "", ran_validator |-> TRUE,
        frame |-> validate_features(df, validation_config).df_valid, obj |-> <<"df_valid">>]

\* no processor.transform call was made
NoTransform == [ret |-> [op |-> "none"], report |-> InitReport, writes |-> <<>>]

\* predict_dataframe(df, artifacts_dir, do_validate, validation_config):
\* source is what lines 33-44 left, t what processor.transform(df) did
\* (line 51), kind the interface of the stored classifier and stored the
\* content of threshold.json
predict_dataframe(df, source, t, kind, stored) ==
  LET thr == load_threshold(stored, DefaultThreshold)
      X == t.ret.table
      proba == [i \in DOMAIN X.rows |-> Proba(kind, X.rows[i])]
      flag == [i \in DOMAIN X.rows |-> risk_flag(Proba(kind, X.rows[i]), thr)]
      out == AddRisk(source.frame, proba, flag)
      \* the caller's table after processor.transform(df)
      transformed == CallerFrame(source.obj, df, t.writes).frame
  IN IF source.error # ""
     THEN PredictRet(df, df, "raise", source.error, EmptyFrame, <<>>,
                     source.ran_validator, FALSE, FALSE, EmptyFrame, NULL, <<>>)
     ELSE IF t.ret.outcome = "raise"
     THEN PredictRet(df, transformed, "raise", t.ret.error, EmptyFrame, <<>>,
                     source.ran_validator, TRUE, TRUE, source.frame, Some(thr), <<>>)
     ELSE PredictRet(df, After(copy(source.obj), transformed, out), "return", "", out,
                     copy(source.obj), source.ran_validator, TRUE, TRUE, source.frame,
                     Some(thr), proba)

\* the tables handed to predict_dataframe: none, one without columns, one
\* without rows, and tables with rows
PredictFrames ==
  { NULL, EmptyFrame, Frame(<<>>), Frame(<<Good1, Good2, Edge>>), Frame(<<Good1, BadRatio>>),
    Frame(<<Gaps, Good2>>), MissingColumnFrame }

\* threshold.json: absent, or a value in [0, 1]
StoredThresholds == {NULL, Some(ProbaUnit)}

\* the pandas build decides only where capping can run (IqrMinRows rows)
Upcasts(df) == IF df # NULL /\ Len(df.rows) >= IqrMinRows THEN BOOLEAN ELSE {TRUE}

\* do_validate and validation_config as callers pass them
ValidationArgs == {<<FALSE, NULL>>, <<TRUE, NULL>>, <<TRUE, VALIDATION_CONFIG>>}

PredictDataframe ==
  /\ calls < MaxCalls
  /\ calls' = calls + 1
  /\ UNCHANGED <<self_df, scaler, report, fitSnap>>
  /\ UNCHANGED <<serverVars, extensionVars>>
  /\ \E df \in PredictFrames, validation \in ValidationArgs, kind \in ModelKinds,
        stored \in StoredThresholds :
     \E upcast \in Upcasts(df) :
     \E source \in {PredictSource(df, validation[1], validation[2])} :
     \E t \in {IF source.error = "" THEN transform(scaler, report, source.frame, upcast)
               ELSE NoTransform} :
       ret' = predict_dataframe(df, source, t, kind, stored)
                @@ [args |-> [do_validate |-> validation[1], validation_config |-> validation[2],
                              kind |-> kind, stored |-> stored],
                    X |-> IF t.ret.op = "none" THEN EmptyFrame ELSE t.ret.table]

PipelineNext == FitTransform \/ Transform \/ PredictDataframe

\* the tables a pipeline is trained on
TrainFrames ==
  { Frame(<<Good1>>), Frame(<<Good1, Good2>>), Frame(<<Good1, Edge>>), GapFrame, WideFrame,
    Frame(<<BadRatio>>), MissingColumnFrame }

\* ------------------------------------------------------------ specifications
\* ------------------------------------------ extension background (part_002)
\* Handlers are async: a handler runs up to the point where it waits for the
\* browser (a storage callback, tabs.query, fetch) and its continuation runs
\* later, after any other handler. The awaits of getSettings() and of an
\* async function that has no await of its own (closeDwell) are taken with
\* the step before them: they give no other handler a turn.
Tabs == {1, 2}

SnsHost == "www.instagram.com"
BankHost == "m.bank.example"

\* a URL the browser reports; scheme "" stands for a string new URL() rejects
Url(scheme, h, search, hash) == [scheme |-> scheme, host |-> h, search |-> search, hash |-> hash]
EmptyUrl == Url("", "", "", "")
Urls ==
  { Url("https", SnsHost, "", ""), Url("https", SnsHost, "?q=secret", "#top"),
    Url("https", BankHost, "?account=1", ""), Url("about", "", "", "") }

\* a plausible slip: the URL kept as the browser reports it
stripQueryKept(u) == u

\* stripQuery: search and hash emptied; the argument itself when new URL throws
stripQuery(u) == IF u.scheme = "" THEN u ELSE [u EXCEPT !.search = "", !.hash = ""]

\* hostOf: hostname, "" when new URL throws
hostOf(u) == IF u.scheme = "" THEN "" ELSE u.host

\* detectCategory on the hosts of Urls
detectCategory(u) == IF hostOf(u) = SnsHost THEN "sns" ELSE "other"

\* host.endsWith(h) on the hosts and exclusion entries of the model
EndsWith(host, h) == host = h \/ <<host, h>> \in {<<BankHost, "bank.example">>}

\* isExcluded(host, excludeHosts)
isExcluded(host, excludeHosts) == \E h \in excludeHosts : EndsWith(host, h)

\* chrome.storage.sync as the Options page may set it
SettingsValues ==
  { [enabled |-> TRUE, excludeHosts |-> {}],
    [enabled |-> TRUE, excludeHosts |-> {"bank.example"}],
    [enabled |-> FALSE, excludeHosts |-> {}] }

\* an event object as a handler builds it; fields left out are NULL
Event(type, now, url, h, cat, tabId, dwell, count) ==
  [ts |-> Some(now), type |-> Some(type), url |-> url, host |-> h, category |-> cat,
   tabId |-> tabId, dwell_ms |-> dwell, count |-> count]

\* the event flushBatch enqueues after an upload the server accepted
BatchOk(n, now) == Event("batch_ok", now, NULL, NoHost, NoCategory, NULL, NULL, Some(n))

\* the event of the content script's scroll listener
ScrollEvent(now) == Event("scroll", now, NULL, NoHost, NoCategory, NULL, NULL, NULL)

Remove(f, t) == [x \in DOMAIN f \ {t} |-> f[x]]
Put(f, t, v) == [x \in DOMAIN f \cup {t} |-> IF x = t THEN v ELSE f[x]]

IsActive(ta, t) == t \in DOMAIN ta /\ ~IsNull(ta[t].activeSince)

\* closeDwell(tabId) at time now on tabActivity ta: the table it leaves and
\* the events it hands to pushEvent
closeDwell(ta, t, now) ==
  IF ~IsActive(ta, t) THEN [ta |-> ta, evs |-> {}]
  ELSE [ta |-> [ta EXCEPT ![t].activeSince = NULL],
        evs |-> {Event("dwell", now, ta[t].url, ta[t].host, ta[t].category, Some(t),
                       Some(now - Val(ta[t].activeSince)), NULL)}]

\* pushEvent(ev): storage.local.get has read the queue q; the callback that
\* pushes ev and writes the array back is pending
PushTask(ev, q) == [op |-> "push", ev |-> ev, q |-> q]

Pushes(evs) == {PushTask(e, eventQueue) : e \in evs}

\* room for the continuations ts and, if an event is pushed, in the queue
Room(ts) ==
  /\ Cardinality(tasks \cup ts) <= MaxTasks
  /\ (\E k \in ts : k.op = "push") => Len(eventQueue) < MaxQueue

\* the dwell reports of a closeDwell, each with whether its interval holds
\* time the tab spent on an excluded host
Reports(evs, t) == [i \in 1..Cardinality(evs) |-> [ev |-> CHOOSE e \in evs : TRUE, covers |-> t \in exposed]]

\* tabs that show an excluded host while their interval is open
Showing(ta, pg, st) ==
  {t \in DOMAIN pg : IsActive(ta, t) /\ isExcluded(pg[t], st.excludeHosts)}

\* the callback of pushEvent's (or the content script's) storage.local.get
PushEventSet ==
  \E k \in tasks :
    /\ k.op = "push"
    /\ eventQueue' = Append(k.q, k.ev)
    /\ tasks' = tasks \ {k}
    /\ UNCHANGED <<settings, tabActivity, currentActiveTabId, clock, page, exposed, dwellLog>>
    /\ UNCHANGED <<serverVars, processorVars, shown>>

\* the Options page writes chrome.storage.sync
SetSettings ==
  /\ clock < MaxClock
  /\ clock' = clock + 1
  /\ \E st \in SettingsValues \ {settings} :
       /\ settings' = st
       /\ exposed' = exposed \cup Showing(tabActivity, page, st)
  /\ UNCHANGED <<eventQueue, tabActivity, currentActiveTabId, tasks, page, dwellLog>>
  /\ UNCHANGED <<serverVars, processorVars, shown>>

\* activateTab(tabId) at time now, the tab open
activateTab(t, now) ==
  IF ~settings.enabled
  THEN UNCHANGED <<eventQueue, tabActivity, currentActiveTabId, tasks, exposed, dwellLog>>
  ELSE LET old == IF ~IsNull(currentActiveTabId) /\ Val(currentActiveTabId) # t
                  THEN {Val(currentActiveTabId)} ELSE {}
           c == IF old = {} THEN [ta |-> tabActivity, evs |-> {}]
                ELSE closeDwell(tabActivity, Val(currentActiveTabId), now)
           entry == IF t \in DOMAIN c.ta THEN [c.ta[t] EXCEPT !.activeSince = Some(now)]
                    ELSE [url |-> NULL, host |-> NoHost, category |-> NoCategory,
                          activeSince |-> Some(now)]
           ts == Pushes(c.evs) \cup {[op |-> "tab_count", at |-> now]}
       IN /\ Room(ts)
          /\ tasks' = tasks \cup ts
          /\ currentActiveTabId' = Some(t)
          /\ tabActivity' = Put(c.ta, t, entry)
          /\ dwellLog' = dwellLog \o Reports(c.evs, CHOOSE o \in old : TRUE)
          /\ exposed' = ((exposed \ old) \ {t}) \cup Showing(tabActivity', page', settings)
          /\ UNCHANGED eventQueue

\* chrome.tabs.onActivated: the user switches to tab t or opens it
OnActivated ==
  /\ clock < MaxClock
  /\ clock' = clock + 1
  /\ \E t \in Tabs :
       /\ page' = IF t \in DOMAIN page THEN page ELSE Put(page, t, NoHost)
       /\ activateTab(t, clock + 1)
  /\ UNCHANGED settings
  /\ UNCHANGED <<serverVars, processorVars, shown>>

\* activateTab after chrome.tabs.query({}): the tab_count event
TabCount ==
  \E k \in tasks :
    /\ k.op = "tab_count"
    /\ clock < MaxClock
    /\ clock' = clock + 1
    /\ LET ev == Event("tab_count", clock + 1, NULL, NoHost, NoCategory, NULL, NULL,
                       Some(Cardinality(DOMAIN page)))
       IN /\ Len(eventQueue) < MaxQueue
          /\ tasks' = (tasks \ {k}) \cup Pushes({ev})
    /\ UNCHANGED <<eventQueue, settings, tabActivity, currentActiveTabId, page, exposed, dwellLog>>
    /\ UNCHANGED <<serverVars, processorVars, shown>>

\* chrome.tabs.onRemoved: closeDwell(tabId), then delete tabActivity[tabId]
OnRemoved ==
  /\ clock < MaxClock
  /\ clock' = clock + 1
  /\ \E t \in DOMAIN page :
       LET c == closeDwell(tabActivity, t, clock + 1)
       IN /\ Room(Pushes(c.evs))
          /\ tasks' = tasks \cup Pushes(c.evs)
          /\ tabActivity' = Remove(c.ta, t)
          /\ page' = Remove(page, t)
          /\ dwellLog' = dwellLog \o Reports(c.evs, t)
          /\ exposed' = exposed \ {t}
  /\ UNCHANGED <<eventQueue, settings, currentActiveTabId>>
  /\ UNCHANGED <<serverVars, processorVars, shown>>

\* chrome.windows.onFocusChanged: WINDOW_ID_NONE when focused is FALSE, else
\* the window whose active tab is t
OnFocusChanged ==
  /\ clock < MaxClock
  /\ clock' = clock + 1
  /\ \E focused \in BOOLEAN :
       IF focused
       THEN /\ UNCHANGED page
            /\ \E t \in DOMAIN page : activateTab(t, clock + 1)
       ELSE IF settings.enabled /\ ~IsNull(currentActiveTabId)
       THEN LET t == Val(currentActiveTabId)
                c == closeDwell(tabActivity, t, clock + 1)
            IN /\ Room(Pushes(c.evs))
               /\ tasks' = tasks \cup Pushes(c.evs)
               /\ tabActivity' = c.ta
               /\ currentActiveTabId' = NULL
               /\ dwellLog' = dwellLog \o Reports(c.evs, t)
               /\ exposed' = exposed \ {t}
               /\ UNCHANGED <<eventQueue, page>>
       ELSE UNCHANGED <<eventQueue, tabActivity, currentActiveTabId, tasks, page, exposed, dwellLog>>
  /\ UNCHANGED settings
  /\ UNCHANGED <<serverVars, processorVars, shown>>

\* what handleUrlChange(tabId, url) does to tabActivity and which event it
\* pushes, under the settings st
handleUrlChange(ta, st, t, url, now) ==
  LET stripped == stripQuery(url)
      host == hostOf(stripped)
      category == detectCategory(stripped)
      old == IF t \in DOMAIN ta THEN ta[t]
             ELSE [url |-> NULL, host |-> NoHost, category |-> NoCategory, activeSince |-> NULL]
  IN IF ~st.enabled \/ host = "" \/ isExcluded(host, st.excludeHosts)
     THEN [ta |-> ta, evs |-> {}]
     ELSE [ta |-> Put(ta, t, [old EXCEPT !.url = Some(stripped), !.host = host,
                                         !.category = category]),
           evs |-> {Event("visit", now, Some(stripped), host, category, Some(t), NULL, NULL)}]

\* chrome.webNavigation.onCommitted, main frame: tab t commits a URL
OnCommitted ==
  /\ clock < MaxClock
  /\ clock' = clock + 1
  /\ \E t \in DOMAIN page, url \in Urls :
       LET h == handleUrlChange(tabActivity, settings, t, url, clock + 1)
       IN /\ Room(Pushes(h.evs))
          /\ tasks' = tasks \cup Pushes(h.evs)
          /\ tabActivity' = h.ta
          /\ page' = [page EXCEPT ![t] = hostOf(url)]
          /\ exposed' = exposed \cup Showing(h.ta, page', settings)
  /\ UNCHANGED <<eventQueue, settings, currentActiveTabId, dwellLog>>
  /\ UNCHANGED <<serverVars, processorVars, shown>>

\* content_script.js: a scroll in a page
OnScroll ==
  /\ clock < MaxClock
  /\ clock' = clock + 1
  /\ page # <<>>
  /\ Room(Pushes({ScrollEvent(clock + 1)}))
  /\ tasks' = tasks \cup Pushes({ScrollEvent(clock + 1)})
  /\ UNCHANGED <<eventQueue, settings, tabActivity, currentActiveTabId, page, exposed, dwellLog>>
  /\ UNCHANGED <<serverVars, processorVars, shown>>

\* flushBatch's sanitized: every event with url: stripQuery(e.url || "")
Sanitized(q) ==
  [i \in DOMAIN q |->
     [q[i] EXCEPT !.url = Some(stripQuery(IF IsNull(q[i].url) THEN EmptyUrl ELSE Val(q[i].url)))]]

\* the batch_upload alarm or a flush_now message: flushBatch() up to its fetch
FlushBatch ==
  /\ settings.enabled
  /\ eventQueue # <<>>
  /\ Room({[op |-> "fetch", batch |-> Sanitized(eventQueue)]})
  /\ tasks' = tasks \cup {[op |-> "fetch", batch |-> Sanitized(eventQueue)]}
  /\ UNCHANGED <<eventQueue, settings, tabActivity, currentActiveTabId, clock, page, exposed, dwellLog>>
  /\ UNCHANGED <<serverVars, processorVars, shown>>

\* the persisted queue after the response of the upload, q the queue before
AfterUpload(ok, q) == IF ok THEN <<>> ELSE q

\* the response of the fetch: POST /events/batch has stored the batch and
\* answered 201, or the upload failed; after a 201 the queue is emptied and
\* batch_ok pushed
FlushResponse ==
  \E k \in tasks, ok \in BOOLEAN :
    /\ k.op = "fetch"
    /\ eventQueue' = AfterUpload(ok, eventQueue)
    /\ IF ok
       THEN /\ nPosted < MaxEvents
            /\ clock < MaxClock
            /\ nPosted' = nPosted + 1
            /\ clock' = clock + 1
            /\ raw_events' = InsertAll(raw_events, k.batch, clock + 1)
            /\ res' = [path |-> "/events/batch", status |-> 201,
                       inserted |-> Len(k.batch), events |-> k.batch]
            /\ tasks' = (tasks \ {k}) \cup {PushTask(BatchOk(Len(k.batch), clock + 1), <<>>)}
       ELSE /\ res' = [path |-> "/events/batch", status |-> 500, events |-> k.batch]
            /\ tasks' = tasks \ {k}
            /\ UNCHANGED <<raw_events, nPosted, clock>>
    /\ UNCHANGED <<daily_metrics, written>>
    /\ UNCHANGED <<settings, tabActivity, currentActiveTabId, page, exposed, dwellLog>>
    /\ UNCHANGED <<processorVars, shown>>

CollectorNext ==
  \/ SetSettings \/ OnActivated \/ TabCount \/ OnRemoved \/ OnFocusChanged
  \/ OnCommitted \/ OnScroll \/ PushEventSet \/ FlushBatch \/ FlushResponse

\* ------------------------------------ tab tracker of metrics_demo.js
\* deactivateTab records a dwell only above this many milliseconds
MinDwellMs == 1000

\* Date.now() at tick c of the clock: successive events are MinDwellMs apart
nowMs(c) == c * MinDwellMs

\* listener h, called for tab arg (0: none) and url, suspended in an await:
\* of pushEvent with the event ev and the queue q it read ("deactivate",
\* "visit"), or of chrome.tabs.query ("query")
Pending(op, h, arg, url, ev, q) ==
  [op |-> op, h |-> h, arg |-> arg, url |-> url, ev |-> ev, q |-> q]

\* deactivateTab(tabId) up to its await: wait says that it awaits pushEvent
\* with the dwell event; activeSince is cleared only after that await
deactivateTab(ta, tabId, now) ==
  IF IsNull(tabId) \/ ~IsActive(ta, Val(tabId))
  THEN [wait |-> FALSE, ta |-> ta, ev |-> NULL]
  ELSE LET e == ta[Val(tabId)]
           dwellMs == now - Val(e.activeSince)
       IN IF dwellMs > MinDwellMs
          THEN [wait |-> TRUE, ta |-> ta,
                ev |-> Some(Event("dwell", now, e.url, e.host, e.category, tabId,
                                  Some(dwellMs), NULL))]
          ELSE [wait |-> FALSE, ta |-> [ta EXCEPT ![Val(tabId)].activeSince = NULL],
                ev |-> NULL]

\* activateTab(tabId) of metrics_demo.js on the table ta
activateTabDemo(ta, cur, t, now) ==
  IF t \notin DOMAIN ta THEN [ta |-> ta, cur |-> cur]
  ELSE [ta |-> [ta EXCEPT ![t].activeSince = Some(now)], cur |-> Some(t)]

\* listener h goes on after its deactivateTab, on table ta, the other
\* continuations being base and the stored queue q, until it ends or awaits
Resume(h, arg, url, ta, base, now, q) ==
  CASE h = "activated" ->
         LET a == activateTabDemo(ta, currentActiveTabId, arg, now)
         IN /\ tabActivity' = a.ta
            /\ currentActiveTabId' = a.cur
            /\ tasks' = base
    [] h = "removed" ->
         /\ tabActivity' = Remove(ta, arg)
         /\ tasks' = base
         /\ UNCHANGED currentActiveTabId
    [] h = "focus_none" ->
         /\ tabActivity' = ta
         /\ tasks' = base
         /\ UNCHANGED currentActiveTabId
    [] h = "focus" ->
         /\ tabActivity' = ta
         /\ tasks' = base \cup {Pending("query", h, arg, NULL, NULL, <<>>)}
         /\ UNCHANGED currentActiveTabId
    [] h = "updated" ->
         LET u == Val(url)
             host == hostOf(u)
             category == detectCategory(u)
             visit == Event("visit", now, Some(stripQuery(u)), host, category, Some(arg),
                            NULL, NULL)
         IN /\ UNCHANGED currentActiveTabId
            /\ IF host \in settings.excludeHosts
               THEN tabActivity' = ta /\ tasks' = base
               ELSE /\ Len(q) < MaxQueue
                    /\ tabActivity' = Put(ta, arg, [url |-> Some(stripQuery(u)), host |-> host,
                                                    category |-> category, activeSince |-> NULL])
                    /\ tasks' = base \cup {Pending("visit", h, arg, NULL, Some(visit), q)}

\* listener h starts with deactivateTab(tabId) at time now
Start(h, arg, url, tabId, now) ==
  LET d == deactivateTab(tabActivity, tabId, now)
  IN /\ Cardinality(tasks) < MaxTasks
     /\ UNCHANGED <<eventQueue, settings, exposed>>
     /\ IF d.wait
        THEN /\ Len(eventQueue) < MaxQueue
             /\ tasks' = tasks \cup {Pending("deactivate", h, arg, url, d.ev, eventQueue)}
             /\ dwellLog' = Append(dwellLog, [ev |-> Val(d.ev), covers |-> FALSE])
             /\ UNCHANGED <<tabActivity, currentActiveTabId>>
        ELSE /\ Resume(h, arg, url, d.ta, tasks, now, eventQueue)
             /\ UNCHANGED dwellLog

\* the next event of the browser
Tick == clock < MaxClock /\ clock' = clock + 1

\* chrome.tabs.onActivated: the user opens tab t or switches to it
OnActivatedDemo ==
  /\ Tick
  /\ \E t \in Tabs :
       /\ shown # Some(t)
       /\ shown' = Some(t)
       /\ page' = IF t \in DOMAIN page THEN page ELSE Put(page, t, NoHost)
       /\ Start("activated", t, NULL, currentActiveTabId, nowMs(clock'))
  /\ UNCHANGED <<serverVars, processorVars>>

\* chrome.tabs.onUpdated with status complete: tab t has loaded url
OnUpdatedDemo ==
  /\ Tick
  /\ \E t \in DOMAIN page, url \in Urls :
       /\ page' = [page EXCEPT ![t] = hostOf(url)]
       /\ IF url.scheme \notin {"http", "https"}
          THEN UNCHANGED <<eventQueue, settings, tabActivity, currentActiveTabId, tasks,
                           exposed, dwellLog>>
          ELSE Start("updated", t, Some(url), Some(t), nowMs(clock'))
  /\ UNCHANGED shown
  /\ UNCHANGED <<serverVars, processorVars>>

\* chrome.tabs.onRemoved: the user closes tab t
OnRemovedDemo ==
  /\ Tick
  /\ \E t \in DOMAIN page :
       /\ page' = Remove(page, t)
       /\ shown' = IF shown = Some(t) THEN NULL ELSE shown
       /\ Start("removed", t, NULL, Some(t), nowMs(clock'))
  /\ UNCHANGED <<serverVars, processorVars>>

\* chrome.windows.onFocusChanged: the window gets the focus or loses it
OnFocusChangedDemo ==
  /\ Tick
  /\ \E focused \in BOOLEAN :
       Start(IF focused THEN "focus" ELSE "focus_none", 0, NULL, currentActiveTabId,
             nowMs(clock'))
  /\ UNCHANGED <<page, shown>>
  /\ UNCHANGED <<serverVars, processorVars>>

\* the dwell event of deactivateTab is stored; deactivateTab clears
\* activeSince, which throws if the entry was deleted meanwhile, and the
\* listener goes on
DeactivateDone ==
  \E k \in tasks :
    /\ k.op = "deactivate"
    /\ eventQueue' = Append(k.q, Val(k.ev))
    /\ LET t == Val(Val(k.ev).tabId)
       IN IF t \notin DOMAIN tabActivity
          THEN /\ tasks' = tasks \ {k}
               /\ UNCHANGED <<tabActivity, currentActiveTabId>>
          ELSE Resume(k.h, k.arg, k.url, [tabActivity EXCEPT ![t].activeSince = NULL],
                      tasks \ {k}, nowMs(clock), eventQueue')
    /\ UNCHANGED <<settings, clock, page, exposed, dwellLog, shown>>
    /\ UNCHANGED <<serverVars, processorVars>>

\* the visit event of handleUrlChange is stored; it asks for the active tab
VisitDone ==
  \E k \in tasks :
    /\ k.op = "visit"
    /\ eventQueue' = Append(k.q, Val(k.ev))
    /\ tasks' = (tasks \ {k}) \cup {Pending("query", k.h, k.arg, NULL, NULL, <<>>)}
    /\ UNCHANGED <<settings, tabActivity, currentActiveTabId, clock, page, exposed, dwellLog,
                   shown>>
    /\ UNCHANGED <<serverVars, processorVars>>

\* chrome.tabs.query answers: handleUrlChange activates its tab if it is the
\* active one, onFocusChanged activates the active tab
QueryDone ==
  \E k \in tasks :
    /\ k.op = "query"
    /\ LET hit == IF k.h = "updated" THEN shown = Some(k.arg) ELSE ~IsNull(shown)
           a == IF hit THEN activateTabDemo(tabActivity, currentActiveTabId, Val(shown),
                                            nowMs(clock))
                ELSE [ta |-> tabActivity, cur |-> currentActiveTabId]
       IN /\ tabActivity' = a.ta
          /\ currentActiveTabId' = a.cur
    /\ tasks' = tasks \ {k}
    /\ UNCHANGED <<eventQueue, settings, clock, page, exposed, dwellLog, shown>>
    /\ UNCHANGED <<serverVars, processorVars>>

TrackerNext ==
  \/ OnActivatedDemo \/ OnUpdatedDemo \/ OnRemovedDemo \/ OnFocusChangedDemo
  \/ DeactivateDone \/ VisitDone \/ QueryDone

\* the server started on an empty events.db or on one seed.js filled; no
\* DataProcessor in use
ServerInit ==
  /\ raw_events \in {<<>>, SeededLog}
  /\ daily_metrics = {}
  /\ res = [path |-> "none"]
  /\ nPosted = 0
  /\ written = <<>>
  /\ eventQueue = <<>>
  /\ settings = [enabled |-> TRUE, excludeHosts |-> {}]
  /\ tabActivity = <<>>
  /\ currentActiveTabId = NULL
  /\ tasks = {}
  /\ clock = 0
  /\ page = <<>>
  /\ exposed = {}
  /\ dwellLog = <<>>
  /\ shown = NULL
  /\ self_df = EmptyFrame
  /\ scaler = None
  /\ report = InitReport
  /\ ret = [op |-> "none"]
  /\ calls = 0
  /\ fitSnap = [done |-> FALSE, attempts |-> 0]

\* the aggregator over an events.db that is empty, seeded, or holds the
\* sessions of one day; no DataProcessor in use
MetricsInit ==
  /\ raw_events \in {<<>>, SeededLog, ScenarioALog, BounceLog, TieLog}
  /\ daily_metrics = {}
  /\ res = [path |-> "none"]
  /\ nPosted = 0
  /\ written = <<>>
  /\ eventQueue = <<>>
  /\ settings = [enabled |-> TRUE, excludeHosts |-> {}]
  /\ tabActivity = <<>>
  /\ currentActiveTabId = NULL
  /\ tasks = {}
  /\ clock = 0
  /\ page = <<>>
  /\ exposed = {}
  /\ dwellLog = <<>>
  /\ shown = NULL
  /\ self_df = EmptyFrame
  /\ scaler = None
  /\ report = InitReport
  /\ ret = [op |-> "none"]
  /\ calls = 0
  /\ fitSnap = [done |-> FALSE, attempts |-> 0]

\* DataProcessor(df) just constructed; the server not in use
ProcessorInit ==
  /\ self_df \in FitFrames
  /\ scaler = None
  /\ report = InitReport
  /\ ret = [op |-> "none"]
  /\ calls = 0
  /\ fitSnap = [done |-> FALSE, attempts |-> 0]
  /\ raw_events = <<>>
  /\ daily_metrics = {}
  /\ res = [path |-> "none"]
  /\ nPosted = 0
  /\ written = <<>>
  /\ eventQueue = <<>>
  /\ settings = [enabled |-> TRUE, excludeHosts |-> {}]
  /\ tabActivity = <<>>
  /\ currentActiveTabId = NULL
  /\ tasks = {}
  /\ clock = 0
  /\ page = <<>>
  /\ exposed = {}
  /\ dwellLog = <<>>
  /\ shown = NULL

\* DataProcessor(df) constructed on a training table, no artifact used yet;
\* the server not in use
PipelineInit ==
  /\ self_df \in TrainFrames
  /\ scaler = None
  /\ report = InitReport
  /\ ret = [op |-> "none"]
  /\ calls = 0
  /\ fitSnap = [done |-> FALSE, attempts |-> 0]
  /\ raw_events = <<>>
  /\ daily_metrics = {}
  /\ res = [path |-> "none"]
  /\ nPosted = 0
  /\ written = <<>>
  /\ eventQueue = <<>>
  /\ settings = [enabled |-> TRUE, excludeHosts |-> {}]
  /\ tabActivity = <<>>
  /\ currentActiveTabId = NULL
  /\ tasks = {}
  /\ clock = 0
  /\ page = <<>>
  /\ exposed = {}
  /\ dwellLog = <<>>
  /\ shown = NULL

\* the extension just installed in a browser with one tab open, under any
\* settings of the Options page, and the server on an empty events.db; no
\* DataProcessor in use
CollectorInit ==
  /\ eventQueue = <<>>
  /\ settings \in SettingsValues
  /\ tabActivity = <<>>
  /\ currentActiveTabId = NULL
  /\ tasks = {}
  /\ clock = 0
  /\ page = [t \in {1} |-> NoHost]
  /\ exposed = {}
  /\ dwellLog = <<>>
  /\ shown = NULL
  /\ raw_events = <<>>
  /\ daily_metrics = {}
  /\ res = [path |-> "none"]
  /\ nPosted = 0
  /\ written = <<>>
  /\ self_df = EmptyFrame
  /\ scaler = None
  /\ report = InitReport
  /\ ret = [op |-> "none"]
  /\ calls = 0
  /\ fitSnap = [done |-> FALSE, attempts |-> 0]

\* metrics_demo.js after tabs 1 and 2 have loaded and the queue has been
\* uploaded: tab 1 is the active one, since the first tick or since the
\* millisecond before it
TrackerInit ==
  /\ eventQueue = <<>>
  /\ settings = [enabled |-> TRUE, excludeHosts |-> {}]
  /\ \E since \in {nowMs(1) - 1, nowMs(1)} :
       tabActivity = [t \in Tabs |-> [url |-> Some(Url("https", SnsHost, "", "")),
                                      host |-> SnsHost, category |-> "sns",
                                      activeSince |-> IF t = 1 THEN Some(since) ELSE NULL]]
  /\ currentActiveTabId = Some(1)
  /\ tasks = {}
  /\ clock = 1
  /\ page = [t \in Tabs |-> SnsHost]
  /\ exposed = {}
  /\ dwellLog = <<>>
  /\ shown = Some(1)
  /\ raw_events = <<>>
  /\ daily_metrics = {}
  /\ res = [path |-> "none"]
  /\ nPosted = 0
  /\ written = <<>>
  /\ self_df = EmptyFrame
  /\ scaler = None
  /\ report = InitReport
  /\ ret = [op |-> "none"]
  /\ calls = 0
  /\ fitSnap = [done |-> FALSE, attempts |-> 0]

\* the metrics server and its clients
SpecServer == ServerInit /\ [][ServerNext]_vars

\* the metrics server and clients that post any body
SpecBatch == ServerInit /\ [][BatchNext]_vars

\* computeMetrics called on windows of any shape, and the weekly endpoint
SpecMetrics == MetricsInit /\ [][MetricsNext]_vars

\* the two endpoints and the windows they aggregate
SpecWindows == MetricsInit /\ [][WindowsNext]_vars

\* the extension and its uploads to the server
SpecCollector == CollectorInit /\ [][CollectorNext]_vars

\* the tab tracker of metrics_demo.js
SpecTracker == TrackerInit /\ [][TrackerNext]_vars

\* one DataProcessor and its caller
SpecProcessor == ProcessorInit /\ [][ProcessorNext]_vars

\* training and serving: one DataProcessor, saved as it is, used by
\* predict_dataframe
SpecPipeline == PipelineInit /\ [][PipelineNext]_vars

\* ------------------------------------------------------------ server claims
IsDaily == res.path = "/metrics/daily" /\ res.status = 200

\* the rows of the half-open window [a, b)
HalfOpen(tbl, a, b) == SelectSeq(tbl, LAMBDA e : a <= e.ts /\ e.ts < b)

RatioFields(m) ==
  {m.late_night_ratio, m.sns_ent_ratio, m.bounce_ratio, m.repeat_site_ratio}

\* C1: computeMetrics(a, b) aggregates only the events with a <= ts < b: the
\* FeatureRow served for a day is the one computed from the rows of [a, b)
\* alone, so an event with ts = b contributes to no metric of that window.
C1_HalfOpenWindow ==
  IsDaily => res.m = computeMetrics(HalfOpen(raw_events, res.a, res.b), res.a, res.b)

\* C2: a window [a, b) that contains no dwell event has all four ratio
\* metrics exactly 0.
C2_NoDwellAllRatiosZero ==
  (IsDaily /\ DwellRows(HalfOpen(raw_events, res.a, res.b), res.a, res.b) = {})
     => RatioFields(res.m) = {Zero}

NonNegativeDwell(tbl) ==
  \A i \in DOMAIN tbl : IsNull(tbl[i].dwell_ms) \/ Val(tbl[i].dwell_ms) >= 0

InUnitInterval(f) == 0 <= f[1] /\ f[1] <= f[2] /\ f[2] > 0

\* C3: when every dwell_ms of the log is a non-negative integer or null,
\* each ratio metric of the FeatureRow lies in [0, 1].
C3_RatiosInUnitInterval ==
  (IsDaily /\ NonNegativeDwell(raw_events))
     => \A f \in RatioFields(res.m) : InUnitInterval(f)

\* C3 witness: a served row whose top-5 share is strictly between 0 and 1
\* (more than five hosts in the window) over a non-negative log.
C3_Witness ==
  /\ IsDaily
  /\ NonNegativeDwell(raw_events)
  /\ \A f \in RatioFields(res.m) : 0 < f[1] /\ f[1] < f[2]

\* C4: daily_metrics holds at most one row per day_start_ms, and that row is
\* in every field the FeatureRow of the request that wrote the key last.
C4_OneRowPerDayLastWriteWins ==
  /\ \A r1, r2 \in daily_metrics : r1.day_start_ms = r2.day_start_ms => r1 = r2
  /\ {r.day_start_ms : r \in daily_metrics} = DOMAIN written
  /\ \A r \in daily_metrics : r.m = written[r.day_start_ms].m

\* C4 witness: a day key recomputed after the log changed, its row replaced.
C4_Witness ==
  \E r \in daily_metrics :
     written[r.day_start_ms].replaced /\ r.m = written[r.day_start_ms].m

\* --------------------------------------------------- DataProcessor claims
IsFit == ret.op = "fit_transform"
IsTransform == ret.op = "transform"
Returned == ret.outcome = "return" /\ ret.caught = ""

\* C5: transform returns a table only if an earlier fit_transform on the
\* instance succeeded; on a fresh instance or after a failed fit_transform it
\* raises NotFitted and returns nothing.
C5_TransformNeedsFit ==
  IsTransform =>
    /\ ret.outcome = "return" => fitSnap.done
    /\ ~fitSnap.done =>
         ret.outcome = "raise" /\ ret.error = "NotFitted" /\ ret.table = EmptyFrame

\* C5 witness: transform called after a fit_transform that failed validation.
C5_Witness ==
  /\ IsTransform /\ ~fitSnap.done /\ fitSnap.attempts > 0
  /\ ret.error = "NotFitted"
  /\ _validate_data(InitReport.validation, self_df).problems > 0

\* C6: with validation problems fit_transform ends in the ValidationFailed
\* error outcome for its caller, imputes, caps and scales nothing, returns no
\* cleaned table and leaves the processor unfitted.
C6_FitFailsWithValidationFailed ==
  (IsFit /\ ret.problems > 0) =>
    /\ ret.outcome = "raise" /\ ret.error = "ValidationFailed"
    /\ ret.imputed = EmptyFrame /\ ret.table = EmptyFrame
    /\ ~scaler.fitted

\* C7: a transform call on a fitted processor leaves every field of the
\* instance (scaler parameters, report, preprocessing log) as it was.
C7_TransformMutatesNothing ==
  [][(ret'.op = "transform" /\ calls' # calls /\ scaler.fitted)
        => (scaler' = scaler /\ report' = report)]_vars

\* mean and scale the last fit computed, taken from the frame it cleaned
FitPresent(c) ==
  {i \in DOMAIN fitSnap.processed.rows : ~IsNa(fitSnap.processed.rows[i][c])}
FitN(c) == Cardinality(FitPresent(c))
FitSum(c) == SumSet([i \in FitPresent(c) |-> Val(fitSnap.processed.rows[i][c])], FitPresent(c))
FitSumSq(c) ==
  SumSet([i \in FitPresent(c) |-> Val(fitSnap.processed.rows[i][c]) * Val(fitSnap.processed.rows[i][c])],
         FitPresent(c))
FitVar(c) == FitN(c) * FitSumSq(c) - FitSum(c) * FitSum(c)

\* C8: every value transform returns is (x - mean_fit) / std_fit, x the
\* cleaned value and mean_fit, std_fit the statistics of the fit-time frame,
\* and the stored parameters are those of the fit before and after the call.
C8_TransformUsesFitParameters ==
  (IsTransform /\ Returned) =>
    /\ scaler = fitSnap.scaler
    /\ \A i \in DOMAIN ret.table.rows : \A c \in Range(NUMERIC_COLUMNS \o RATIO_COLUMNS) :
         LET x == ret.processed.rows[i][c]
         IN ret.table.rows[i][c] =
              IF IsNa(x) \/ FitN(c) = 0 THEN NaN
              ELSE IF FitVar(c) = 0
              THEN <<FitN(c) * Val(x) - FitSum(c), FitN(c), Unit * Unit, 1>>
              ELSE <<FitN(c) * Val(x) - FitSum(c), FitN(c), FitVar(c), FitN(c) * FitN(c)>>

\* C8 witness: transform returned a frame whose own statistics differ from
\* the fitted ones.
C8_Witness ==
  /\ IsTransform /\ Returned
  /\ ret.processed # fitSnap.processed
  /\ FitScaler(ret.processed) # scaler

\* a standardized cell <<num, den, A, B>> is (num / den) / sqrt(A / B)
ZInUnitInterval(z) ==
  z # NaN /\ z[1] >= 0 /\ z[1] * z[1] * z[4] <= z[3] * z[2] * z[2]
ZIntegral(z, bound) ==
  z = NaN \/ \E k \in 0 .. bound : z[1] * z[1] * z[4] = k * k * z[3] * z[2] * z[2]

\* C9 as stated: in the table a successful fit returns, every ratio value is
\* in [0, 1] and every integer-column value is integral.
C9_ReturnedFrameInRange ==
  (IsFit /\ Returned) =>
    \A i \in DOMAIN ret.table.rows :
      /\ \A c \in Range(RATIO_COLUMNS) : ZInUnitInterval(ret.table.rows[i][c])
      /\ \A c \in Range(INTEGER_COLUMNS) :
           ZIntegral(ret.table.rows[i][c], Len(ret.table.rows))

\* C9 amended: in the cleaned frame a successful fit standardizes (after
\* imputation, clipping and capping, before scaling) every ratio value is in
\* [0, 1], and after imputation (before capping) every integer-column value
\* is integral or missing.
C9_CleanedFrameInRange ==
  (IsFit /\ Returned) =>
    \A i \in DOMAIN ret.processed.rows :
      /\ \A c \in Range(RATIO_COLUMNS) :
           LET x == ret.processed.rows[i][c]
           IN ~IsNa(x) /\ 0 <= Val(x) /\ Val(x) <= Unit
      /\ \A c \in Range(INTEGER_COLUMNS) :
           IsNa(ret.imputed.rows[i][c]) \/ IsIntegral(Val(ret.imputed.rows[i][c]))

\* C9 witness: a successful fit that filled an integer column with the
\* rounded half-integral median and returned a negative standardized ratio.
C9_Witness ==
  /\ IsFit /\ Returned
  /\ \E c \in Range(INTEGER_COLUMNS) :
       /\ ~IsNa(Median(ret.validated, c)) /\ ~IsIntegral(Val(Median(ret.validated, c)))
       /\ \E i \in DOMAIN ret.validated.rows : IsNa(ret.validated.rows[i][c])
  /\ \E i \in DOMAIN ret.table.rows : ret.table.rows[i]["ad_click_rate"][1] < 0

InputMissing == {c \in Range(REQUIRED_COLUMNS) : c \notin ret.input.columns}

\* C10: when a required column is absent, validation stops at the
\* missing-column check with an error naming the missing columns: no other
\* check runs, no failure row is recorded, no cleaned table is returned.
C10_MissingColumnsStopValidation ==
  (ret.op # "none" /\ ret.error # "NotFitted" /\ InputMissing # {}) =>
    /\ "MissingColumns" \in {ret.error, ret.caught}
    /\ Range(ret.missing) = InputMissing
    /\ report.validation.missing_columns = ret.missing
    /\ ret.problems = 0 /\ ret.failure_rows = <<>> /\ ~ret.csv
    /\ ret.validated = EmptyFrame /\ ret.table = EmptyFrame

\* C10 witness: transform given a frame that lacks ad_click_rate and whose
\* row would also fail the max-versus-mean check.
C10_Witness ==
  /\ IsTransform /\ ret.error = "MissingColumns"
  /\ ret.input = MissingColumnFrame
  /\ LogicFailures(ret.input) # <<>>

\* ------------------------------------------------------- validation claims
\* a call that ran the checks after the missing-column check
ChecksRan ==
  ret.op \in {"fit_transform", "transform"} /\ ret.error # "NotFitted" /\ InputMissing = {}

\* a raw cell holds a number (text fails coercion and counts as missing)
HasNumber(x) == Len(x) = 1

\* the checks a raw row violates, one per checked column
RowViolations(r) ==
  {chk \in {"dates", "logic"} \cup Range(RATIO_COLUMNS) \cup Range(INTEGER_COLUMNS) :
     IF chk = "dates"
     THEN /\ HasNumber(r.period_start) /\ HasNumber(r.period_end)
          /\ r.period_end[1] < r.period_start[1]
     ELSE IF chk = "logic"
     THEN /\ HasNumber(r.session_length_max) /\ HasNumber(r.session_length_mean)
          /\ r.session_length_max[1] < r.session_length_mean[1]
     ELSE IF chk \in Range(RATIO_COLUMNS)
     THEN HasNumber(r[chk]) /\ (r[chk][1] < 0 \/ r[chk][1] > Unit)
     ELSE HasNumber(r[chk]) /\ r[chk][1] % Unit # 0}

FailuresOfRow(i) == {k \in DOMAIN ret.failure_rows : ret.failure_rows[k].index = i - 1}

\* C11: past the missing-column check no check short-circuits another: the
\* problems count and the number of failure rows equal the sum over the
\* date-order, ratio-bounds, max-versus-mean and (per column) integer checks
\* of the rows violating the check, a row violating k checks has k failure
\* rows, and a value that fails numeric coercion adds no problem.
C11_NoShortCircuit ==
  ChecksRan =>
    LET rows == ret.input.rows
        total == SumSet([i \in DOMAIN rows |-> Cardinality(RowViolations(rows[i]))], DOMAIN rows)
    IN /\ ret.problems = total
       /\ Len(ret.failure_rows) = total
       /\ \A i \in DOMAIN rows :
            Cardinality(FailuresOfRow(i)) = Cardinality(RowViolations(rows[i]))

\* C11 witness: a table whose first row fails all five checks and whose
\* second row holds text in a numeric column.
C11_Witness ==
  /\ ChecksRan /\ ret.problems = 5 /\ Cardinality(FailuresOfRow(1)) = 5
  /\ Len(ret.input.rows) = 2
  /\ ret.input.rows[2].session_length_mean = Text

FailuresWith(i, reason) ==
  {k \in FailuresOfRow(i) : ret.failure_rows[k].reason = reason}

\* C12: every non-missing value of a ratio column outside [0, 1] yields
\* exactly one problem with reason ratio_out_of_bounds carrying that value,
\* a value inside [0, 1] (bounds included) or missing yields none; a single
\* row with ad_click_rate = 1.5 and no other defect yields exactly one
\* problem, with value 1.5.
C12_RatioOutOfBounds ==
  ChecksRan =>
    /\ \A i \in DOMAIN ret.input.rows : \A c \in Range(RATIO_COLUMNS) :
         LET x == ret.input.rows[i][c]
             found == {k \in FailuresWith(i, "ratio_out_of_bounds") :
                         ret.failure_rows[k].column = c}
         IN IF HasNumber(x) /\ (x[1] < 0 \/ x[1] > Unit)
            THEN /\ Cardinality(found) = 1
                 /\ \A k \in found : ret.failure_rows[k].value = x
            ELSE found = {}
    /\ \A k \in DOMAIN ret.failure_rows :
         ret.failure_rows[k].reason = "ratio_out_of_bounds"
            => ret.failure_rows[k].column \in Range(RATIO_COLUMNS)
    /\ ret.input = Frame(<<BadRatio>>) =>
         /\ ret.problems = 1
         /\ ret.failure_rows =
              << [index |-> 0, column |-> "ad_click_rate",
                  reason |-> "ratio_out_of_bounds", value |-> Num(Unit + Half)] >>

\* C12 witness: one table with a ratio of exactly 1, which passes, and a
\* ratio below 0, which is the only problem.
C12_Witness ==
  /\ ChecksRan /\ ret.input = Frame(<<Edge, RatioNeg>>)
  /\ ret.problems = 1
  /\ ret.failure_rows[1].value = Num(0 - Half)

\* C12 scenario: the single row with ad_click_rate = 1.5 was validated.
C12_ScenarioB == ChecksRan /\ ret.input = Frame(<<BadRatio>>) /\ ret.problems = 1

\* C13: every row where session_length_max and session_length_mean are both
\* present and max < mean yields exactly one problem with reason
\* max_less_than_mean, a row with max >= mean or with either value missing
\* yields none; a single row with max = 2.0 and mean = 3.0 yields exactly one
\* problem.
C13_MaxLessThanMean ==
  ChecksRan =>
    /\ \A i \in DOMAIN ret.input.rows :
         LET max == ret.input.rows[i].session_length_max
             mean == ret.input.rows[i].session_length_mean
         IN Cardinality(FailuresWith(i, "max_less_than_mean")) =
              IF HasNumber(max) /\ HasNumber(mean) /\ max[1] < mean[1] THEN 1 ELSE 0
    /\ ret.input = Frame(<<BadLogic>>) =>
         /\ ret.problems = 1
         /\ ret.failure_rows[1].reason = "max_less_than_mean"
         /\ ret.failure_rows[1].index = 0

\* C13 witness: a table whose first row has max < mean and is reported once
\* and whose second row has max = mean and is not reported.
C13_Witness ==
  /\ ChecksRan /\ ret.input = Frame(<<BadLogic, Edge>>)
  /\ ret.input.rows[2].session_length_max = ret.input.rows[2].session_length_mean
  /\ Cardinality(FailuresWith(1, "max_less_than_mean")) = 1
  /\ ret.problems = 1

\* C13 scenario: the single row with max = 2.0 and mean = 3.0 was validated.
C13_ScenarioC == ChecksRan /\ ret.input = Frame(<<BadLogic>>) /\ ret.problems = 1

\* the place of a failure row's column label in the schema order
ColumnRank(column) ==
  IF column = "period_start/period_end" THEN 1
  ELSE IF column = "session_length_max/mean" THEN 3
  ELSE CHOOSE k \in DOMAIN REQUIRED_COLUMNS : REQUIRED_COLUMNS[k] = column

\* C14: when validation fails the exported failure list is ordered by row
\* index first and by column second (a function of the input table alone).
C14_FailureRowsOrdered ==
  (ChecksRan /\ ret.problems > 0) =>
    \A j, k \in DOMAIN ret.failure_rows :
      j < k =>
        \/ ret.failure_rows[j].index < ret.failure_rows[k].index
        \/ /\ ret.failure_rows[j].index = ret.failure_rows[k].index
           /\ ColumnRank(ret.failure_rows[j].column) < ColumnRank(ret.failure_rows[k].column)

\* the validator returned a table
ValidationSucceeded == ChecksRan /\ ret.problems = 0

\* C15: no table with a negative value in a numeric (float or integer)
\* column is accepted: every row of a table a successful validation returns
\* has all numeric columns non-negative or missing.
C15_NoNegativeAccepted ==
  ValidationSucceeded =>
    \A i \in DOMAIN ret.validated.rows : \A c \in Range(NUMERIC_COLUMNS) :
      IsNa(ret.validated.rows[i][c]) \/ Val(ret.validated.rows[i][c]) >= 0

\* C16: every row of a table a successful validation returns satisfies
\* session_length_max >= session_length_mean whenever both are present.
C16_ValidatedMaxAtLeastMean ==
  ValidationSucceeded =>
    \A i \in DOMAIN ret.validated.rows :
      LET max == ret.validated.rows[i].session_length_max
          mean == ret.validated.rows[i].session_length_mean
      IN (~IsNa(max) /\ ~IsNa(mean)) => Val(max) >= Val(mean)

\* C16 witness: a returned table with a row where max equals mean and a row
\* where max is above mean.
C16_Witness ==
  /\ ValidationSucceeded
  /\ \E i, j \in DOMAIN ret.validated.rows :
       /\ ret.validated.rows[i].session_length_max = ret.validated.rows[i].session_length_mean
       /\ ~IsNa(ret.validated.rows[i].session_length_max)
       /\ ~IsNa(ret.validated.rows[j].session_length_mean)
       /\ Val(ret.validated.rows[j].session_length_max) > Val(ret.validated.rows[j].session_length_mean)

\* the validator run again on the table a successful validation returned
Revalidated == _validate_data(report.validation, ret.validated)

\* C17: validation is idempotent on its own output: run again on the table
\* a successful validation returned it reports problems = 0 and returns a
\* table equal to its input.
C17_ValidationIdempotent ==
  ValidationSucceeded =>
    /\ Revalidated.raised = "" /\ Revalidated.problems = 0
    /\ Revalidated.failure_rows = <<>>
    /\ Revalidated.returned /\ Revalidated.df = ret.validated

\* C17 witness: a successful validation whose coercion changed the table
\* (text became missing), so the table validated again is not the raw one.
C17_Witness ==
  /\ ValidationSucceeded
  /\ ret.validated # ret.input
  /\ \E i \in DOMAIN ret.input.rows :
       ret.input.rows[i].period_start = Text /\ IsNa(ret.validated.rows[i].period_start)

\* --------------------------------------------------------- pipeline claims
IsPredict == ret.op = "predict_dataframe"

\* C18: the caller's input table is never modified by validation,
\* preprocessing, fit_transform, transform or predict_dataframe: after the
\* call, successful or failed, the table object passed in holds the values it
\* held before, and a returned table is a new object.
C18_InputNeverModified ==
  ret.op # "none" =>
    /\ ret.input_after = ret.input
    /\ IsFit => self_df = ret.input
    /\ ret.outcome = "return" => ret.table_obj # CallerObject

\* C18 witness: predict_dataframe returned for a table holding text, which
\* the processor's validation coerced in its own copy.
C18_Witness ==
  /\ IsPredict /\ ret.outcome = "return" /\ ~ret.args.do_validate
  /\ ret.input = Frame(<<Gaps, Good2>>)
  /\ Coerce(ret.input) # ret.input
  /\ ret.table_obj = copy(CallerObject)

\* C19: predict_dataframe on a missing table or a table with zero rows fails
\* with EmptyInput before any artifact is loaded, any validation or
\* transform is run, or any output is produced.
C19_EmptyInputFailsFirst ==
  (IsPredict /\ (ret.input = NULL \/ ret.input.rows = <<>>)) =>
    /\ ret.outcome = "raise" /\ ret.error = "EmptyInput"
    /\ ~ret.loaded /\ ~ret.ran_validator /\ ~ret.ran_transform
    /\ ret.table = EmptyFrame /\ ret.proba = <<>>

\* C19 witness: a table with all columns and zero rows, validation asked
\* for, handed to a pipeline whose processor is fitted.
C19_Witness ==
  /\ IsPredict /\ ret.input = Frame(<<>>) /\ ret.error = "EmptyInput"
  /\ ret.args.do_validate /\ ret.args.validation_config # NULL
  /\ scaler.fitted

\* the threshold of the call: the stored one, 0.5 when none is stored
ThresholdOf(stored) == IF stored = NULL THEN ProbaUnit \div 2 ELSE stored[1]

\* C20: for every row of the output of predict_dataframe risk_flag is 1
\* exactly when risk_proba >= threshold (equality gives 1) and 0 otherwise,
\* the threshold being the stored one or 0.5 when none is stored; the output
\* has one row per input row, in the same order.
C20_RiskFlagByThreshold ==
  (IsPredict /\ ret.outcome = "return") =>
    /\ Len(ret.table.rows) = Len(ret.input.rows)
    /\ \A i \in DOMAIN ret.table.rows :
         /\ ret.table.rows[i].risk_proba = Num(ret.proba[i])
         /\ ret.table.rows[i].risk_flag \in {Num(0), Num(1)}
         /\ ret.table.rows[i].risk_flag = Num(1)
              <=> ret.proba[i] >= ThresholdOf(ret.args.stored)
         /\ \A c \in ret.input.columns :
              ret.table.rows[i][c] =
                IF ret.args.do_validate THEN Coerce(ret.input).rows[i][c]
                ELSE ret.input.rows[i][c]

\* C20 witness: no threshold stored, three different rows; one row has a
\* probability of exactly 0.5 and is flagged, another lies below and is not.
C20_Witness ==
  /\ IsPredict /\ ret.outcome = "return" /\ ret.args.stored = NULL
  /\ Len(ret.table.rows) = 3
  /\ \E i, j \in DOMAIN ret.table.rows :
       /\ ret.proba[i] = ProbaUnit \div 2 /\ ret.table.rows[i].risk_flag = Num(1)
       /\ ret.proba[j] < ProbaUnit \div 2 /\ ret.table.rows[j].risk_flag = Num(0)

\* the classifier output of each interface for a transformed row
DirectProba(x) == predict_proba(Feature(x))
LogisticOfScore(x) == sigmoid(decision_function(Feature(x)))
HardLabel(x) == predict(Feature(x)) * ProbaUnit

\* C21: predict_dataframe takes the probability from the classifier's direct
\* probability output whenever the classifier has one, otherwise from the
\* logistic function of its decision score, and from the hard class label
\* (0.0 or 1.0) only when it has neither; a lower source is never used when
\* a higher one exists.
C21_ProbabilitySourcePriority ==
  (IsPredict /\ ret.outcome = "return") =>
    /\ DOMAIN ret.proba = DOMAIN ret.X.rows
    /\ \A i \in DOMAIN ret.X.rows :
         /\ "predict_proba" \in ret.args.kind => ret.proba[i] = DirectProba(ret.X.rows[i])
         /\ ("predict_proba" \notin ret.args.kind /\ "decision_function" \in ret.args.kind)
              => ret.proba[i] = LogisticOfScore(ret.X.rows[i])
         /\ ret.args.kind = {"predict"}
              => ret.proba[i] = HardLabel(ret.X.rows[i]) /\ ret.proba[i] \in {0, ProbaUnit}

\* C21 witness: a classifier with all three interfaces and a row on which
\* the three sources give three different values; the direct one is used.
C21_Witness ==
  /\ IsPredict /\ ret.outcome = "return"
  /\ ret.args.kind = {"predict_proba", "decision_function", "predict"}
  /\ \E i \in DOMAIN ret.X.rows :
       /\ ret.proba[i] = DirectProba(ret.X.rows[i])
       /\ DirectProba(ret.X.rows[i]) # LogisticOfScore(ret.X.rows[i])
       /\ LogisticOfScore(ret.X.rows[i]) # HardLabel(ret.X.rows[i])
       /\ DirectProba(ret.X.rows[i]) # HardLabel(ret.X.rows[i])

\* C21 witness of the fallback: a classifier with predict only.
C21_HardLabelFallback ==
  /\ IsPredict /\ ret.outcome = "return" /\ ret.args.kind = {"predict"}
  /\ \E i, j \in DOMAIN ret.X.rows : ret.proba[i] = 0 /\ ret.proba[j] = ProbaUnit

\* ------------------------------------------------------ aggregator claims
IsCompute == res.path = "computeMetrics"

\* C22: computeMetrics rejects a window whose end is not strictly greater
\* than its start: for windowEnd <= windowStart the call ends in an error
\* and gives no FeatureRow.
C22_RejectsEmptyWindow ==
  (IsCompute /\ res.b <= res.a) => res.outcome # "return"

\* C23: if any of the range queries issued for a window fails, the
\* aggregation fails as a whole: GET /metrics/daily answers without a
\* FeatureRow (neither a partial nor a zero-filled one) and writes no row to
\* daily_metrics for that window.
C23_QueryFailureAbortsWindow ==
  [][(res'.path = "/metrics/daily" /\ res'.failed) =>
       /\ res'.status = 500
       /\ "m" \notin DOMAIN res'
       /\ daily_metrics' = daily_metrics]_vars

\* C23 witness: a failed request for a day that has dwell events and no row
\* in daily_metrics yet.
C23_Witness ==
  /\ res.path = "/metrics/daily" /\ res.failed /\ res.status = 500
  /\ DwellRows(raw_events, res.a, res.b) # {}
  /\ \A r \in daily_metrics : r.day_start_ms # res.a

\* the table with rows i and i + 1 inserted in the other order
SwapAdjacent(tbl, i) ==
  [k \in DOMAIN tbl |-> IF k = i THEN tbl[i + 1] ELSE IF k = i + 1 THEN tbl[i] ELSE tbl[k]]

\* the table inserted in the opposite order
Reverse(tbl) == [k \in DOMAIN tbl |-> tbl[Len(tbl) + 1 - k]]

\* C24: computeMetrics is deterministic: for the same set of events and the
\* same window bounds every call returns the same FeatureRow in every field,
\* whatever the order in which the events were inserted and however ties
\* between hosts with equal dwell totals are broken in the top-5 selection.
C24_Deterministic ==
  (IsCompute /\ res.outcome = "return") =>
    /\ FeatureRows(raw_events, res.a, res.b) = {res.m}
    /\ FeatureRows(Reverse(raw_events), res.a, res.b) = {res.m}
    /\ \A i \in 1..(Len(raw_events) - 1) :
         FeatureRows(SwapAdjacent(raw_events, i), res.a, res.b) = {res.m}

\* C24 witness: more than five hosts in the window, two of them with equal
\* totals right at the cut of the top five, and a top-5 share below 1.
C24_Witness ==
  /\ IsCompute /\ res.outcome = "return"
  /\ res.m.repeat_site_ratio[1] < res.m.repeat_site_ratio[2]
  /\ LET hosts == Hosts(raw_events, res.a, res.b)
         ms == [h \in hosts |-> Coalesce0(HostMs(raw_events, res.a, res.b)[h])]
     IN \E g, h \in hosts :
          /\ g # h /\ ms[g] = ms[h] /\ ms[g] > 0
          /\ Cardinality({x \in hosts : ms[x] > ms[g]}) < TopHosts
          /\ Cardinality({x \in hosts : ms[x] >= ms[g]}) > TopHosts

\* the sessions of a window: its dwell events that carry a dwell_ms
Sessions(tbl, a, b) == {i \in DwellRows(tbl, a, b) : ~IsNull(tbl[i].dwell_ms)}
SessionMs(tbl, a, b) == [i \in Sessions(tbl, a, b) |-> Val(tbl[i].dwell_ms)]

\* h hundredths of a minute is num / den milliseconds rounded to 2 decimals
\* of a minute: no other hundredth is nearer
RoundedMinutes(h, num, den) == Abs(600 * den * h - num) * 2 <= 600 * den

\* the window of the served call holds exactly three dwell events, of 5,000,
\* 15,000 and 95,000 ms, none of them at its end
IsScenarioA ==
  /\ IsCompute /\ res.outcome = "return" /\ res.a < res.b
  /\ Cardinality(DwellRows(raw_events, res.a, res.b)) = 3
  /\ Len(HalfOpen(raw_events, res.a, res.b)) = 3
  /\ {raw_events[i].dwell_ms : i \in DwellRows(raw_events, res.a, res.b)}
       = {Some(5000), Some(15000), Some(95000)}

\* bounce_ratio, session_length_max and session_length_mean of the served
\* call by the general rule
C25_GeneralRule ==
  (IsCompute /\ res.outcome = "return") =>
    LET S == Sessions(raw_events, res.a, res.b)
        ms == SessionMs(raw_events, res.a, res.b)
        n == Cardinality(S)
    IN IF n = 0
       THEN /\ res.m.bounce_ratio = Zero
            /\ res.m.session_length_max = 0 /\ res.m.session_length_mean = 0
       ELSE /\ res.m.bounce_ratio = Frac(Cardinality({i \in S : ms[i] <= 10000}), n)
            /\ RoundedMinutes(res.m.session_length_max, MaxOf(ms, S), 1)
            /\ RoundedMinutes(res.m.session_length_mean, SumSet(ms, S), n)

C25_BounceLimit ==
  /\ IsCompute /\ res.outcome = "return"
  /\ {SessionMs(raw_events, res.a, res.b)[i] : i \in Sessions(raw_events, res.a, res.b)}
       = {10000, 10001}
  /\ res.m.bounce_ratio = <<1, 2>>

\* the sum of dwell_ms, null as 0, over the events of type dwell of a table
DwellSum(tbl) ==
  SumSet([i \in DOMAIN tbl |-> Coalesce0(tbl[i].dwell_ms)],
         {i \in DOMAIN tbl : tbl[i].type = "dwell"})

\* C26: total_usage equals the sum of dwell_ms over exactly the events of
\* type dwell in the window [a, b) (a null dwell_ms counts as 0; dwell_ms
\* carried by visit or other event types is ignored), divided by 60,000 and
\* rounded to 2 decimal places.
C26_TotalUsage ==
  IsDaily =>
    RoundedMinutes(res.m.total_usage, DwellSum(HalfOpen(raw_events, res.a, res.b)), 1)

\* the same over the rows the queries select, ts BETWEEN a AND b
C26_TotalUsageOfSelectedRows ==
  IsDaily =>
    RoundedMinutes(res.m.total_usage,
      DwellSum(SelectSeq(raw_events, LAMBDA e : Between(e.ts, res.a, res.b))), 1)

IsWeekly == res.path = "/metrics/weekly" /\ res.status = 200

\* the day starts GET /metrics/daily aggregates from
DayStarts == {DayStartOf(q, now) : q \in AnyDayStartParams, now \in Clock}

\* the daily windows contained in the week that starts at weekStart
DaysOfWeek(weekStart) == {d \in DayStarts : weekStart <= d /\ d + Day <= weekStart + Week}

\* C27: for every event log with non-negative dwell_ms and every daily
\* window contained in a weekly window, the weekly total_usage is >= the
\* daily total_usage and the weekly search_freq is >= the daily search_freq.
C27_WeeklyAtLeastDaily ==
  (IsWeekly /\ NonNegativeDwell(raw_events)) =>
    \A d \in DaysOfWeek(res.a) :
      \A daily \in FeatureRows(raw_events, d, d + Day) :
        /\ res.m.total_usage >= daily.total_usage
        /\ res.m.search_freq >= daily.search_freq

\* C27 witness: a week with usage on two days; one of its days has usage
\* and a search, and less usage than the week.
C27_Witness ==
  /\ IsWeekly /\ NonNegativeDwell(raw_events)
  /\ \E d \in DaysOfWeek(res.a) :
       \E daily \in FeatureRows(raw_events, d, d + Day) :
         /\ 0 < daily.total_usage /\ daily.total_usage < res.m.total_usage
         /\ 0 < daily.search_freq /\ daily.search_freq <= res.m.search_freq

\* ------------------------------------------------------- endpoint claims
IsLocalMidnight(t) == t % Day = 0
IsMondayMidnight(t) == IsLocalMidnight(t) /\ getDay(t) = 1

\* C28: every window aggregated by GET /metrics/daily is exactly one local
\* calendar day starting at local midnight, and every window aggregated by
\* GET /metrics/weekly is exactly one week starting Monday 00:00 local time,
\* with or without a dayStart / weekStart parameter; hence every
\* day_start_ms stored in daily_metrics is a local-midnight instant.
C28_WindowsAreCalendarPeriods ==
  /\ IsDaily => IsLocalMidnight(res.a) /\ res.b = res.a + Day
  /\ IsWeekly => IsMondayMidnight(res.a) /\ res.b = res.a + Week
  /\ \A r \in daily_metrics : IsLocalMidnight(r.day_start_ms)

\* the windows of requests without a parameter: the day and the week of
\* the clock
DefaultWindowsAligned ==
  /\ \A now \in Clock \cup WeekClock :
       /\ IsLocalMidnight(DayStartOf(NULL, now))
       /\ DayStartOf(NULL, now) <= now /\ now < DayStartOf(NULL, now) + Day
  /\ \A now \in Clock \cup WeekClock :
       /\ IsMondayMidnight(WeekStartOf(NULL, now))
       /\ WeekStartOf(NULL, now) <= now /\ now < WeekStartOf(NULL, now) + Week

\* a FeatureRow was returned to the caller of computeMetrics
RowReturned == (IsCompute /\ res.outcome = "return") \/ IsDaily \/ IsWeekly

\* the one-row table a FeatureRow makes for the validator
AsFrame(m) == [columns |-> DOMAIN m, rows |-> <<m>>]

\* C29: every FeatureRow returned by computeMetrics carries every column the
\* validator requires (period_start, period_end, session_length_max,
\* session_length_mean, avg_tab_cnt, search_freq, ad_click_rate), so the
\* aggregator's output passes the validator's missing-column check.
C29_FeatureRowHasRequiredColumns ==
  RowReturned =>
    /\ Range(REQUIRED_COLUMNS) \subseteq DOMAIN res.m
    /\ MissingColumns(AsFrame(res.m)) = <<>>


\* ------------------------------------------------------ collection claims
RawEventTypes == {"visit", "dwell", "tab_count", "scroll"}

\* a row of raw_events that the extension uploaded after an earlier upload
BatchOkStored == \E i \in DOMAIN raw_events : raw_events[i].type = "batch_ok"

\* C30: every row stored in raw_events has a type among visit, dwell,
\* tab_count and scroll, and a dwell_ms that is null or not negative,
\* whatever the extension enqueued and uploaded and whatever was posted
C30_RawEventsConform ==
  \A i \in DOMAIN raw_events :
    /\ raw_events[i].type \in RawEventTypes
    /\ IsNull(raw_events[i].dwell_ms) \/ Val(raw_events[i].dwell_ms) >= 0


\* C31: a browser event that occurs while the enabled setting is false makes
\* no handler hand a visit or dwell event to pushEvent, starts no activateTab
\* that will push a tab_count, and starts no upload.
C31_DisabledCollectsNothing ==
  [][~settings.enabled =>
       \A k \in tasks' \ tasks :
         /\ k.op \notin {"tab_count", "fetch"}
         /\ k.op = "push" => Val(k.ev.type) \notin {"visit", "dwell"}]_vars

\* a tab closed while collection is disabled has its dwell event enqueued
DwellWhileDisabled ==
  /\ ~settings.enabled
  /\ \E k \in tasks : k.op = "push" /\ k.ev.type = Some("dwell") /\ k.ev.ts = Some(clock)

\* C32: a navigation to a host of excludeHosts hands no visit event to
\* pushEvent, and no dwell event reports an interval in which its tab showed
\* a host of excludeHosts.
C32_ExcludedNotCollected ==
  [][/\ \A k \in tasks' \ tasks :
          (k.op = "push" /\ k.ev.type = Some("visit"))
             => ~isExcluded(k.ev.host, settings.excludeHosts)
     /\ \A i \in DOMAIN dwellLog' : ~dwellLog'[i].covers]_vars

\* the visit half of C32 alone
NoVisitOnExcludedHost ==
  [][\A k \in tasks' \ tasks :
       (k.op = "push" /\ k.ev.type = Some("visit"))
          => ~isExcluded(k.ev.host, settings.excludeHosts)]_vars

\* a url without query string and fragment, an empty or a missing one
IsStripped(u) == IsNull(u) \/ (Val(u).search = "" /\ Val(u).hash = "")

\* C33: every event in eventQueue, on its way into it, or in a batch sent to
\* POST /events/batch has a url without query string and fragment.
C33_UrlsStripped ==
  /\ \A i \in DOMAIN eventQueue : IsStripped(eventQueue[i].url)
  /\ \A k \in tasks :
       /\ k.op = "push" => IsStripped(k.ev.url)
       /\ k.op = "fetch" => \A i \in DOMAIN k.batch : IsStripped(k.batch[i].url)

\* a visit of the bank's page, which the browser reports with its query, is
\* in a batch on its way to the server
C33_Witness ==
  \E k \in tasks :
    /\ k.op = "fetch"
    /\ \E i \in DOMAIN k.batch :
         k.batch[i].type = Some("visit") /\ k.batch[i].host = BankHost


\* ----------------------------------------------------- concurrency claims
\* the step is the response of an upload
IsFlushResponse == \E k \in tasks \ tasks' : k.op = "fetch"

\* event e is part of the batch the server acknowledges in this step
Acknowledged(e) ==
  /\ nPosted' = nPosted + 1
  /\ res'.status = 201
  /\ \E j \in DOMAIN res'.events : res'.events[j] = Sanitized(<<e>>)[1]

\* C36: when flushBatch completes, every event that was in the persisted
\* queue is still in it unless it was part of the batch the server
\* acknowledged: a failed upload removes nothing, and events enqueued while
\* the upload was in flight stay.
C36_LeavesOnlyAcknowledged ==
  [][IsFlushResponse =>
       \A i \in DOMAIN eventQueue :
         \/ \E j \in DOMAIN eventQueue' : eventQueue'[j] = eventQueue[i]
         \/ Acknowledged(eventQueue[i])]_vars

\* the half of C36 about failed uploads
FailedUploadKeepsQueue ==
  [][(IsFlushResponse /\ res'.status # 201) => eventQueue' = eventQueue]_vars

\* the step is the callback of a pushEvent or of the content script's get
IsPushCallback == \E k \in tasks \ tasks' : k.op = "push"

\* C37: when the callback of a push completes, every event that was in
\* eventQueue is still in it and the pushed event is in it exactly once, so
\* that after all calls every pushed event is there.
C37_NoLostAppend ==
  [][IsPushCallback =>
       \A k \in tasks \ tasks' :
         /\ \A i \in DOMAIN eventQueue :
              \E j \in DOMAIN eventQueue' : eventQueue'[j] = eventQueue[i]
         /\ Cardinality({j \in DOMAIN eventQueue' : eventQueue'[j] = k.ev}) = 1]_vars


\* ---------------------------------------------------- preprocessing claims
\* the call validated its table and went on to _preprocess_data
Preprocessed == ValidationSucceeded /\ Len(ret.imputed.rows) > 0

\* capping acts on column c of the imputed table df
CappingActs(df, c) ==
  /\ c \in Range(NUMERIC_COLUMNS)
  /\ Len(Present(df, c)) >= IqrMinRows
  /\ IqrBounds(Sort(Present(df, c))).IQR > 0

\* column c of the table after capping is column c of the imputed table
\* under the capping rule
CappedAsStated(c) ==
  LET b == IqrBounds(Sort(Present(ret.imputed, c)))
  IN \A i \in DOMAIN ret.imputed.rows :
       LET x == ret.imputed.rows[i][c]
           y == ret.processed.rows[i][c]
       IN IF ~CappingActs(ret.imputed, c) \/ IsNa(x) THEN y = x
          ELSE /\ Val(x) < b.lower => y = Num(b.lower)
               /\ Val(x) > b.upper => y = Num(b.upper)
               /\ (b.lower <= Val(x) /\ Val(x) <= b.upper) => y = x

\* C34: capping leaves every row in place, changes only numeric columns with
\* at least 8 values and IQR > 0, and in those sets every value below
\* Q1 - 1.5 IQR to that bound, every value above Q3 + 1.5 IQR to that bound
\* and leaves the values inside; it does so in every call that reaches it.
C34_CappingRule ==
  Preprocessed =>
    /\ ret.error # "TypeError"
    /\ Len(ret.processed.rows) = Len(ret.imputed.rows)
    /\ \A c \in ret.imputed.columns : CappedAsStated(c)

\* the rule of C34 in the calls whose capping raises nothing
CappingRuleWhenNoError ==
  (Preprocessed /\ ret.error # "TypeError") =>
    /\ Len(ret.processed.rows) = Len(ret.imputed.rows)
    /\ \A c \in ret.imputed.columns : CappedAsStated(c)

\* a call in which capping changed a value and one in which it raised
CappingChangedAValue ==
  /\ Preprocessed /\ ret.error # "TypeError"
  /\ \E i \in DOMAIN ret.imputed.rows :
       ret.processed.rows[i].session_length_max # ret.imputed.rows[i].session_length_max

MaxAtLeastMean(df) ==
  \A i \in DOMAIN df.rows :
    /\ ~IsNa(df.rows[i].session_length_max)
    /\ ~IsNa(df.rows[i].session_length_mean)
    /\ Val(df.rows[i].session_length_max) >= Val(df.rows[i].session_length_mean)

\* C35: if every row of the validated table has session_length_max >=
\* session_length_mean, every row of the table after imputation and capping
\* has it too.
C35_PreprocessingKeepsMaxAtLeastMean ==
  (Preprocessed /\ ret.error # "TypeError" /\ MaxAtLeastMean(ret.validated))
     => MaxAtLeastMean(ret.processed)


\* ------------------------------------------------------ tab tracker claims
\* the start of the interval a dwell event reports
IntervalStart(ev) == Val(ev.ts) - Val(ev.dwell_ms)

\* C38: no two dwell events handed to pushEvent report the same activation
\* interval of a tab (the same tab with the same activeSince).
C38_OneDwellPerInterval ==
  \A i, j \in DOMAIN dwellLog :
    i < j => ~(/\ dwellLog[i].ev.tabId = dwellLog[j].ev.tabId
               /\ IntervalStart(dwellLog[i].ev) = IntervalStart(dwellLog[j].ev))

\* the tabs of tabActivity with a running interval
ActiveTabs == {t \in DOMAIN tabActivity : IsActive(tabActivity, t)}

\* C39: at most one tab of tabActivity has a non-null activeSince, and that
\* tab is currentActiveTabId.
C39_OneActiveTab ==
  /\ Cardinality(ActiveTabs) <= 1
  /\ \A t \in ActiveTabs : currentActiveTabId = Some(t)


\* ------------------------------------------------------ batch upload claims
\* C40: POST /events/batch is all or nothing: a 201 response goes with
\* exactly events.length new rows, a 400 or 500 response with a table that is
\* as it was, and no request changes or deletes a row the table had.
C40_BatchAllOrNothing ==
  [][/\ Len(raw_events') >= Len(raw_events)
     /\ SubSeq(raw_events', 1, Len(raw_events)) = raw_events
     /\ res'.path = "/events/batch" =>
          /\ res'.status = 201 => Len(raw_events') = Len(raw_events) + Len(res'.events)
          /\ res'.status \in {400, 500} => raw_events' = raw_events]_vars

\* a batch has failed at its second insert on a table that holds rows
C40_Witness ==
  /\ res.path = "/events/batch" /\ res.status = 500
  /\ Len(res.events) > 1 /\ res.events[1].host # Unbindable
  /\ Len(raw_events) > 0

=============================================================================
